---- MODULE Spec2Model ----
(***************************************************************************)
(* A model of the data-access layer of newapi-app: the JSON helpers        *)
(* (unwrap, field extraction, entity parsers), the HTTP client, and the    *)
(* list screens' pagination controllers (React state + async loads).       *)
(*                                                                         *)
(* JavaScript values are tagged records [k |-> kind, v |-> payload]:       *)
(*   strings are sequences of characters (one-character TLA+ strings; a    *)
(*   fixed literal of the source such as the fallback message is one atom),*)
(*   arrays are sequences of values, objects are sequences of <<key,value>>*)
(*   entries in insertion order with distinct keys.                        *)
(***************************************************************************)
EXTENDS Integers, Sequences, FiniteSets, TLC

VARIABLES
  \* ---- pure-function harness (SpecJson) ----
  input,      \* the JSON value handed to a helper
  fn,         \* the helper that was applied ("none" before any)
  out,        \* its result
  \* ---- list screen controller (Spec) ----
  screen,     \* which list screen this controller belongs to
  busy, error, items, page, pageSize, total,   \* the screen's React state
  inflight,   \* loads awaiting their HTTP exchange(s)
  issued,     \* number of loads issued so far (the next load's sequence number - 1)
  loadStale,  \* the rendered `load` callback differs from the one the effect last ran
  last,       \* the last step taken (history)
  \* ---- one call of request (SpecHttp) ----
  config,     \* the client's configuration
  args,       \* the arguments of the call
  wire,       \* what was handed to fetch, if anything
  response,   \* what fetch produced, if anything
  result,     \* how the call ended, if it did
  \* ---- dashboard (SpecDashboard); busy, error, inflight, issued, loadStale and last
  \*      are its React state and history too ----
  rangeDays,     \* the chosen range: 1, 7 or 30 days
  endTimestamp,  \* the end of the displayed window, in epoch seconds
  user,          \* the parsed /api/user/self, or null
  quotaData,     \* the parsed rows of /api/data/self
  \* ---- providers and auth gate (SpecApp); inflight, issued, loadStale and last are
  \*      the requests, the staleness of refresh and the history of MeProvider too ----
  credentials,     \* AuthProvider state: userId and accessToken
  authLoaded,      \* AuthProvider isLoaded
  settingsBaseUrl, \* SettingsProvider baseUrl
  settingsLoaded,  \* SettingsProvider isLoaded
  segment,         \* segments[0] of the router
  gateStale,       \* a dependency of the gate's effect changed since it last ran
  me,              \* MeProvider me
  meLoaded         \* MeProvider isLoaded

jsonVars == <<input, fn, out>>
listVars == <<screen, busy, error, items, page, pageSize, total, inflight, issued, loadStale, last>>
httpVars == <<config, args, wire, response, result>>
dashVars == <<rangeDays, endTimestamp, user, quotaData>>
appVars == <<credentials, authLoaded, settingsBaseUrl, settingsLoaded, segment, gateStale, me, meLoaded>>
vars == <<input, fn, out, screen, busy, error, items, page, pageSize, total, inflight, issued,
          loadStale, last, config, args, wire, response, result,
          rangeDays, endTimestamp, user, quotaData,
          credentials, authLoaded, settingsBaseUrl, settingsLoaded, segment, gateStale, me,
          meLoaded>>

----------------------------------------------------------------------------
(* JavaScript values *)

Undefined == [k |-> "undefined", v |-> 0]
Null == [k |-> "null", v |-> 0]
NaN == [k |-> "nan", v |-> 0]
Bool(b) == [k |-> "bool", v |-> b]
Num(n) == [k |-> "num", v |-> n]
Str(s) == [k |-> "str", v |-> s]
Arr(a) == [k |-> "arr", v |-> a]
Obj(o) == [k |-> "obj", v |-> o]

TypeOf(x) ==
  CASE x.k = "undefined" -> "undefined"
    [] x.k = "bool" -> "boolean"
    [] x.k \in {"num", "nan"} -> "number"
    [] x.k = "str" -> "string"
    [] OTHER -> "object"

ArrayIsArray(x) == x.k = "arr"

\* !!x
Truthy(x) ==
  CASE x.k \in {"undefined", "null", "nan"} -> FALSE
    [] x.k = "bool" -> x.v
    [] x.k = "num" -> x.v # 0
    [] x.k = "str" -> x.v # <<>>
    [] OTHER -> TRUE

NumberIsFinite(x) == x.k = "num"

HasKey(o, key) == \E i \in 1..Len(o.v) : o.v[i][1] = key

\* o[key] on an object
Get(o, key) ==
  IF HasKey(o, key)
  THEN o.v[CHOOSE i \in 1..Len(o.v) : o.v[i][1] = key][2]
  ELSE Undefined

ObjectValues(o) == [i \in 1..Len(o.v) |-> o.v[i][2]]

\* x ?? y
Coalesce(x, y) == IF x.k \in {"undefined", "null"} THEN y ELSE x

----------------------------------------------------------------------------
(* Strings: trim, String(number), Number(string) *)

Digits == <<"0", "1", "2", "3", "4", "5", "6", "7", "8", "9">>
IsDigit(c) == \E d \in 1..10 : Digits[d] = c
DigitVal(c) == (CHOOSE d \in 1..10 : Digits[d] = c) - 1
IsSpace(c) == c = " "

RECURSIVE TrimStart(_)
TrimStart(s) == IF s # <<>> /\ IsSpace(s[1]) THEN TrimStart(Tail(s)) ELSE s

RECURSIVE TrimEnd(_)
TrimEnd(s) ==
  IF s # <<>> /\ IsSpace(s[Len(s)]) THEN TrimEnd(SubSeq(s, 1, Len(s) - 1)) ELSE s

\* s.trim()
Trim(s) == TrimEnd(TrimStart(s))

RECURSIVE NatToString(_)
NatToString(n) ==
  IF n < 10 THEN <<Digits[n + 1]>>
  ELSE NatToString(n \div 10) \o <<Digits[(n % 10) + 1]>>

\* String(x) of a number
NumberToString(x) ==
  IF x.k = "nan" THEN <<"N", "a", "N">>
  ELSE IF x.v < 0 THEN <<"-">> \o NatToString(-x.v)
  ELSE NatToString(x.v)

RECURSIVE DecValue(_)
DecValue(s) ==
  IF s = <<>> THEN 0
  ELSE 10 * DecValue(SubSeq(s, 1, Len(s) - 1)) + DigitVal(s[Len(s)])

AllDigits(s) == s # <<>> /\ \A i \in 1..Len(s) : IsDigit(s[i])

\* Number(s) of a string over the alphabet {digits, "-", " ", letters}: surrounding
\* white space is ignored, the empty string is 0, a decimal integer is its value,
\* anything else is NaN.
StringToNumber(s) ==
  LET t == Trim(s) IN
  IF t = <<>> THEN Num(0)
  ELSE IF AllDigits(t) THEN Num(DecValue(t))
  ELSE IF t[1] = "-" /\ AllDigits(Tail(t)) THEN Num(-DecValue(Tail(t)))
  ELSE NaN

----------------------------------------------------------------------------
(* lib/unwrap *)

isRecord(value) == Truthy(value) /\ TypeOf(value) = "object" /\ ~ArrayIsArray(value)

unwrapApiData_nullish(body) ==
  IF ~isRecord(body) THEN body
  ELSE Coalesce(Get(body, "data"), body)

unwrapApiData(body) ==
  IF ~isRecord(body) THEN body
  ELSE IF HasKey(body, "data") THEN Get(body, "data")
  ELSE body

RECURSIVE WalkPath(_, _)
WalkPath(cur, path) ==
  IF path = <<>> THEN cur
  ELSE IF ~isRecord(cur) THEN Undefined
  ELSE WalkPath(Get(cur, path[1]), Tail(path))

getString(body, path) ==
  LET cur == WalkPath(body, path) IN
  IF TypeOf(cur) = "string" THEN cur
  ELSE IF TypeOf(cur) = "number" THEN Str(NumberToString(cur))
  ELSE Undefined

getNumber(body, path) ==
  LET s == getString(body, path) IN
  IF s = Undefined THEN Undefined
  ELSE LET n == StringToNumber(s.v) IN
       IF NumberIsFinite(n) THEN n ELSE Undefined

asArray(value) == IF ArrayIsArray(value) THEN value.v ELSE <<>>

----------------------------------------------------------------------------
(* lib/parsers *)

SetMin(S) == CHOOSE m \in S : \A n \in S : m <= n

notNull(value) == value # Null

arrayCandidates == <<"items", "list", "data", "logs", "tokens", "records", "result">>

\* Indices of the arrays among a sequence of values
ArraysIn(vals) == {i \in 1..Len(vals) : ArrayIsArray(vals[i])}

\* A faulty search: the conventional keys are not tried first
getFirstArrayCandidate_anyKeyFirst(data) ==
  IF ArrayIsArray(data) THEN data.v
  ELSE IF ~isRecord(data) THEN <<>>
  ELSE
    LET vals == ObjectValues(data)
        nested == {i \in 1..Len(vals) :
                     isRecord(vals[i]) /\ ArraysIn(ObjectValues(vals[i])) # {}}
    IN IF ArraysIn(vals) # {} THEN vals[SetMin(ArraysIn(vals))].v
       ELSE IF nested # {}
         THEN LET inner == ObjectValues(vals[SetMin(nested)])
              IN inner[SetMin(ArraysIn(inner))].v
       ELSE <<>>

getFirstArrayCandidate(data) ==
  IF ArrayIsArray(data) THEN data.v
  ELSE IF ~isRecord(data) THEN <<>>
  ELSE
    LET byKey == {i \in 1..Len(arrayCandidates) : ArrayIsArray(Get(data, arrayCandidates[i]))}
        vals == ObjectValues(data)
        nested == {i \in 1..Len(vals) :
                     isRecord(vals[i]) /\ ArraysIn(ObjectValues(vals[i])) # {}}
    IN IF byKey # {} THEN Get(data, arrayCandidates[SetMin(byKey)]).v
       ELSE IF ArraysIn(vals) # {} THEN vals[SetMin(ArraysIn(vals))].v
       ELSE IF nested # {}
         THEN LET inner == ObjectValues(vals[SetMin(nested)])
              IN inner[SetMin(ArraysIn(inner))].v
       ELSE <<>>

\* getString(it, [key]) ?? undefined
optString(it, key) == Coalesce(getString(it, <<key>>), Undefined)

\* getNumber(it, [key]) ?? undefined
optNumber(it, key) == Coalesce(getNumber(it, <<key>>), Undefined)

\* typeof it.key === 'boolean' ? it.key : undefined
optBoolean(it, key) == IF TypeOf(Get(it, key)) = "boolean" THEN Get(it, key) ELSE Undefined

\* it.key === null ? null : typeof it.key === 'string' ? it.key : undefined
nullableString(it, key) ==
  IF Get(it, key) = Null THEN Null
  ELSE IF TypeOf(Get(it, key)) = "string" THEN Get(it, key)
  ELSE Undefined

\* getNumber(it, [key1]) ?? getNumber(it, [key2]) ?? undefined
eitherNumber(it, key1, key2) ==
  Coalesce(getNumber(it, <<key1>>), Coalesce(getNumber(it, <<key2>>), Undefined))

\* The object each list parser returns for a row that passed the identity check
Token(it, id) ==
  [ id |-> id, name |-> optString(it, "name"), key |-> optString(it, "key"),
    status |-> optNumber(it, "status"), group |-> optString(it, "group"),
    createdTime |-> optNumber(it, "created_time"),
    accessedTime |-> optNumber(it, "accessed_time"),
    expiredTime |-> optNumber(it, "expired_time"),
    remainQuota |-> optNumber(it, "remain_quota"),
    usedQuota |-> optNumber(it, "used_quota"),
    unlimitedQuota |-> optBoolean(it, "unlimited_quota"),
    modelLimitsEnabled |-> optBoolean(it, "model_limits_enabled"),
    modelLimits |-> optString(it, "model_limits"),
    allowIps |-> nullableString(it, "allow_ips"),
    crossGroupRetry |-> optBoolean(it, "cross_group_retry") ]

LogItem(it, id) ==
  [ id |-> id, type |-> optNumber(it, "type"), content |-> optString(it, "content"),
    createdAt |-> optNumber(it, "created_at"), username |-> optString(it, "username"),
    tokenName |-> optString(it, "token_name"), modelName |-> optString(it, "model_name"),
    quota |-> optNumber(it, "quota"), promptTokens |-> optNumber(it, "prompt_tokens"),
    completionTokens |-> optNumber(it, "completion_tokens"),
    useTime |-> optNumber(it, "use_time"), isStream |-> optBoolean(it, "is_stream"),
    channel |-> optNumber(it, "channel"), tokenId |-> optNumber(it, "token_id"),
    group |-> optString(it, "group"), ip |-> optString(it, "ip"),
    other |-> optString(it, "other") ]

TopupRecord(it, id) ==
  [ id |-> id, name |-> optString(it, "name"), quota |-> optNumber(it, "quota"),
    status |-> optNumber(it, "status"),
    created |-> eitherNumber(it, "created_time", "created_at"),
    redeemed |-> optNumber(it, "redeemed_time") ]

Redemption(it, id) ==
  [ id |-> id, userId |-> optNumber(it, "user_id"), key |-> optString(it, "key"),
    status |-> optNumber(it, "status"), name |-> optString(it, "name"),
    quota |-> optNumber(it, "quota"), createdTime |-> optNumber(it, "created_time"),
    redeemedTime |-> optNumber(it, "redeemed_time"),
    usedUserId |-> optNumber(it, "used_user_id"),
    expiredTime |-> optNumber(it, "expired_time") ]

Channel(it, id) ==
  [ id |-> id, type |-> optNumber(it, "type"), status |-> optNumber(it, "status"),
    name |-> optString(it, "name"), group |-> optString(it, "group"),
    tag |-> optString(it, "tag"), baseUrl |-> optString(it, "base_url"),
    models |-> optString(it, "models"), priority |-> optNumber(it, "priority"),
    weight |-> optNumber(it, "weight"), createdTime |-> optNumber(it, "created_time"),
    responseTime |-> optNumber(it, "response_time"), balance |-> optNumber(it, "balance"),
    other |-> optString(it, "other"), remark |-> optString(it, "remark") ]

\* The object parseUser returns; parseUsers is not in the source tree and is taken
\* to build the same object for each row
User(it, id, username) ==
  [ id |-> id, username |-> username, displayName |-> optString(it, "display_name"),
    email |-> optString(it, "email"), role |-> optNumber(it, "role"),
    status |-> optNumber(it, "status"), group |-> optString(it, "group"),
    quota |-> optNumber(it, "quota"), usedQuota |-> optNumber(it, "used_quota"),
    requestCount |-> optNumber(it, "request_count") ]

Entity(kind, it, id) ==
  CASE kind = "Token" -> Token(it, id)
    [] kind = "LogItem" -> LogItem(it, id)
    [] kind = "TopupRecord" -> TopupRecord(it, id)
    [] kind = "Redemption" -> Redemption(it, id)
    [] kind = "Channel" -> Channel(it, id)

\* A faulty row callback: any record that has an id key is kept
parseRow_anyId(it, kind) ==
  IF ~isRecord(it) THEN Null
  ELSE IF ~HasKey(it, "id") THEN Null
  ELSE Entity(kind, it, Coalesce(getNumber(it, <<"id">>), Num(0)))

\* The callback every list parser maps over the rows: null unless the row is a
\* record with a truthy numeric id
parseRow(it, kind) ==
  IF ~isRecord(it) THEN Null
  ELSE LET id == getNumber(it, <<"id">>) IN
       IF ~Truthy(id) THEN Null
       ELSE Entity(kind, it, id)

\* A faulty list parser: the first rejected row ends the list
RECURSIVE parseRows_stopAtBad(_, _)
parseRows_stopAtBad(arr, kind) ==
  IF arr = <<>> \/ parseRow(arr[1], kind) = Null THEN <<>>
  ELSE <<parseRow(arr[1], kind)>> \o parseRows_stopAtBad(Tail(arr), kind)

\* arr.map(row callback).filter(notNull)
parseRows(arr, kind) ==
  SelectSeq([i \in 1..Len(arr) |-> parseRow(arr[i], kind)], notNull)

parseTokens(body) == parseRows(getFirstArrayCandidate(unwrapApiData(body)), "Token")
parseLogs(body) == parseRows(getFirstArrayCandidate(unwrapApiData(body)), "LogItem")
parseTopupRecords(body) ==
  parseRows(getFirstArrayCandidate(unwrapApiData(body)), "TopupRecord")
parseRedemptions(body) ==
  parseRows(getFirstArrayCandidate(unwrapApiData(body)), "Redemption")
parseChannels(body) == parseRows(getFirstArrayCandidate(unwrapApiData(body)), "Channel")

\* parseUsers is imported from lib/parsers by the users screen; a user's identity is
\* id and username
parseUserRow(it) ==
  IF ~isRecord(it) THEN Null
  ELSE LET id == getNumber(it, <<"id">>)
           username == Coalesce(getString(it, <<"username">>), Str(<<>>))
       IN IF ~Truthy(id) \/ ~Truthy(username) THEN Null
          ELSE User(it, id, username)

parseUsers(body) ==
  LET arr == getFirstArrayCandidate(unwrapApiData(body)) IN
  SelectSeq([i \in 1..Len(arr) |-> parseUserRow(arr[i])], notNull)

\* A faulty parseUser: a payload without a username is accepted
parseUser_idOnly(body) ==
  LET data == unwrapApiData(body) IN
  IF ~isRecord(data) THEN Null
  ELSE LET id == getNumber(data, <<"id">>)
           username == Coalesce(getString(data, <<"username">>), Str(<<>>))
       IN IF ~Truthy(id) THEN Null
          ELSE User(data, id, username)

parseUser(body) ==
  LET data == unwrapApiData(body) IN
  IF ~isRecord(data) THEN Null
  ELSE LET id == getNumber(data, <<"id">>)
           username == Coalesce(getString(data, <<"username">>), Str(<<>>))
       IN IF ~Truthy(id) \/ ~Truthy(username) THEN Null
          ELSE User(data, id, username)

\* The object parseQuotaData returns for a row
QuotaData(it) ==
  [ id |-> optNumber(it, "id"), userId |-> optNumber(it, "user_id"),
    username |-> optString(it, "username"), modelName |-> optString(it, "model_name"),
    createdAt |-> optNumber(it, "created_at"), tokenUsed |-> optNumber(it, "token_used"),
    count |-> optNumber(it, "count"), quota |-> optNumber(it, "quota") ]

parseQuotaData(body) ==
  LET arr == getFirstArrayCandidate(unwrapApiData(body)) IN
  SelectSeq([i \in 1..Len(arr) |-> IF ~isRecord(arr[i]) THEN Null ELSE QuotaData(arr[i])],
            notNull)


----------------------------------------------------------------------------
(* Declared-failure detection, as each screen does it *)

RequestFailed == <<"request failed">>      \* the generic fallback literal (in the source, in Chinese)
LogsFailed == <<"logs failed">>
StatFailed == <<"stat failed">>
TopupRecordsFailed == <<"topup records failed">>
UserInfoFailed == <<"user info failed">>
TopupInfoFailed == <<"topup info failed">>
StatusFailed == <<"status failed">>

\* app/(tabs)/index.tsx and the admin screens: the error text, or null
getApiError(body) ==
  IF ~isRecord(body) THEN Null
  ELSE IF TypeOf(Get(body, "success")) = "boolean" /\ Get(body, "success") = Bool(FALSE)
    THEN LET msg == Get(body, "message") IN
         IF TypeOf(msg) = "string" /\ Truthy(Str(Trim(msg.v))) THEN msg
         ELSE Str(RequestFailed)
  ELSE Null

\* tokens screen: the envelope, or null
getApiEnvelope(body) ==
  IF ~isRecord(body) THEN Null
  ELSE IF TypeOf(Get(body, "success")) # "boolean" THEN Null
  ELSE Obj(<< <<"success", Get(body, "success")>>,
              <<"message", IF TypeOf(Get(body, "message")) = "string"
                           THEN Get(body, "message") ELSE Undefined>>,
              <<"data", Get(body, "data")>> >>)

\* tokens screen, load: `if (env && env.success === false) setError(env.message || fallback)`
\* The error text that is set, or null when the branch is not taken.
tokensDeclaredError(body) ==
  LET env == getApiEnvelope(body) IN
  IF Truthy(env) /\ Get(env, "success") = Bool(FALSE)
  THEN (IF Truthy(Get(env, "message")) THEN Get(env, "message") ELSE Str(RequestFailed))
  ELSE Null

\* logs and recharge screens, load: the inline check of one response body, with the
\* fallback literal of that response. The error text that is set, or null.
inlineDeclaredError(env, fallback) ==
  IF isRecord(env) /\ TypeOf(Get(env, "success")) = "boolean"
     /\ Get(env, "success") = Bool(FALSE)
  THEN (IF TypeOf(Get(env, "message")) = "string" THEN Get(env, "message")
        ELSE Str(fallback))
  ELSE Null

----------------------------------------------------------------------------
(* Inputs of the pure-function harness *)

MaxRows == 3        \* longest row array handed to a parser

S42 == <<"4", "2">>
S42abc == <<"4", "2", "a", "b", "c">>

\* Values found at a path's end
Terminals ==
  { Num(42), Num(0), Num(-7), Str(S42), Str(S42abc), Str(<<>>), Str(<<" ">>),
    Str(<<"0">>), Str(<<" ", "7", " ">>), Str(<<"-", "7">>), Str(<<"-">>),
    Bool(TRUE), Bool(FALSE), Null, Arr(<<>>), Arr(<<Num(42)>>), Obj(<<>>) }

IdObjects ==
  { Obj(<< <<"id", t>> >>) : t \in Terminals } \cup { Obj(<< <<"name", Str(<<"a">>)>> >>) }

\* Raw rows of a list response
RowValues ==
  { Obj(<< <<"id", Num(1)>>, <<"name", Str(<<"a">>)>> >>),
    Obj(<< <<"id", Str(<<"2">>)>> >>),
    Obj(<< <<"name", Str(<<"b">>)>>, <<"id", Num(3)>> >>),
    Obj(<< <<"id", Num(0)>> >>),
    Obj(<< <<"id", Str(<<>>)>> >>),
    Obj(<< <<"name", Str(<<"c">>)>> >>),
    Obj(<< <<"id", Str(<<"0">>)>> >>),
    Arr(<< Num(1) >>),
    Null }

RECURSIVE SeqsUpTo(_, _)
SeqsUpTo(S, n) ==
  IF n = 0 THEN {<<>>}
  ELSE LET shorter == SeqsUpTo(S, n - 1) IN
       shorter \cup {Append(q, x) : q \in {r \in shorter : Len(r) = n - 1}, x \in S}

RowArrays == SeqsUpTo(RowValues, MaxRows)

ListBodies ==
  { Arr(a) : a \in RowArrays }
  \cup { Obj(<< <<"data", Arr(a)>> >>) : a \in RowArrays }
  \cup { Obj(<< <<"success", Bool(TRUE)>>,
               <<"data", Obj(<< <<"total", Num(Len(a))>>, <<"items", Arr(a)>> >>)>> >>)
         : a \in RowArrays }

Envelopes ==
  { Obj(s \o m \o d) :
      s \in { <<>>, << <<"success", Bool(TRUE)>> >>, << <<"success", Bool(FALSE)>> >>,
              << <<"success", Str(<<"f">>)>> >>, << <<"success", Num(0)>> >>,
              << <<"success", Null>> >> },
      m \in { <<>>, << <<"message", Str(<<"q">>)>> >>, << <<"message", Str(<<>>)>> >>,
              << <<"message", Str(<<" ">>)>> >>, << <<"message", Num(5)>> >>,
              << <<"message", Null>> >> },
      d \in { <<>>, << <<"data", Null>> >>, << <<"data", Arr(<<>>)>> >>,
              << <<"data", Obj(<< <<"id", Num(1)>> >>)>> >>,
              << <<"data", Obj(<< <<"data", Num(1)>> >>)>> >> } }

\* Lengths of a time range, in seconds, handed to bucketSizeSeconds
RangeSeconds ==
  { 0, 3600, 24 * 3600, 72 * 3600 - 1, 72 * 3600, 72 * 3600 + 1, 7 * 24 * 3600,
    30 * 24 * 3600 }

\* Payloads of /api/user/self: identity fields and two of the other fields, present
\* or absent, well typed or not; bare and inside an envelope
UserPayloads ==
  { Obj(i \o n \o d \o r) :
      i \in { <<>>, << <<"id", Num(1)>> >>, << <<"id", Num(0)>> >>, << <<"id", Str(<<"2">>)>> >>,
              << <<"id", Str(<<>>)>> >>, << <<"id", Str(<<"x">>)>> >>, << <<"id", Null>> >>,
              << <<"id", Str(<<"0">>)>> >> },
      n \in { <<>>, << <<"username", Str(<<"u">>)>> >>, << <<"username", Str(<<>>)>> >>,
              << <<"username", Num(5)>> >>, << <<"username", Bool(TRUE)>> >> },
      d \in { <<>>, << <<"display_name", Str(<<"d">>)>> >>, << <<"display_name", Num(5)>> >>,
              << <<"display_name", Null>> >> },
      r \in { <<>>, << <<"role", Num(1)>> >>, << <<"role", Str(<<"1">>)>> >>,
              << <<"role", Str(<<>>)>> >>, << <<"role", Bool(TRUE)>> >> } }

UserBodies == UserPayloads \cup { Obj(<< <<"success", Bool(TRUE)>>, <<"data", u>> >>) : u \in UserPayloads }

MaxEntries == 3     \* most entries of a payload handed to getFirstArrayCandidate

\* Entries of such a payload: arrays under two keys that are not conventional and
\* under two that are, two nested objects that hold an array, and a conventional key
\* whose value is no array
PayloadEntries ==
  { <<"a", Arr(<<Num(1)>>)>>, <<"b", Arr(<<Num(2)>>)>>,
    <<"list", Arr(<<Num(3)>>)>>, <<"items", Arr(<<Num(4)>>)>>,
    <<"n", Obj(<< <<"x", Str(<<"s">>)>>, <<"y", Arr(<<Num(5)>>)>> >>)>>,
    <<"m", Obj(<< <<"items", Arr(<<Num(6)>>)>> >>)>>,
    <<"data", Str(<<"s">>)>> }

\* The payloads of at most MaxEntries of these entries, in every key order
ArrayPayloads ==
  { Obj(e) : e \in { q \in SeqsUpTo(PayloadEntries, MaxEntries) :
                       \A i, j \in 1..Len(q) : i # j => q[i][1] # q[j][1] } }

JsonInputs ==
  Terminals \cup IdObjects \cup ListBodies \cup Envelopes \cup {Num(n) : n \in RangeSeconds}
    \cup UserBodies \cup ArrayPayloads

ParserNames == {"parseTokens", "parseLogs", "parseTopupRecords", "parseRedemptions",
                "parseChannels"}

Parse(p, body) ==
  CASE p = "parseTokens" -> parseTokens(body)
    [] p = "parseLogs" -> parseLogs(body)
    [] p = "parseTopupRecords" -> parseTopupRecords(body)
    [] p = "parseRedemptions" -> parseRedemptions(body)
    [] p = "parseChannels" -> parseChannels(body)
    [] p = "parseUsers" -> parseUsers(body)

----------------------------------------------------------------------------
(* The dashboard's bucket size: app/(tabs)/index.tsx *)

\* A faulty bucket size: a range of exactly 72 hours gets the daily buckets
bucketSizeSeconds_atLeast(rangeSeconds) ==
  IF rangeSeconds >= 72 * 3600 THEN 24 * 3600 ELSE 3600

bucketSizeSeconds(rangeSeconds) ==
  IF rangeSeconds > 72 * 3600 THEN 24 * 3600 ELSE 3600

----------------------------------------------------------------------------
(* SpecJson: every helper applied to every input *)

NoRequest == [seq |-> 0, nextPage |-> 0, pageSize |-> 0]
NoStep == [op |-> "none", req |-> NoRequest, threw |-> FALSE, res |-> <<>>]

\* The list controller, not mounted
ListParked ==
  /\ screen = "none" /\ busy = FALSE /\ error = <<>> /\ items = <<>>
  /\ page = 1 /\ pageSize = 1 /\ total = 0
  /\ inflight = {} /\ issued = 0 /\ loadStale = FALSE /\ last = NoStep

\* The harness, not in use
JsonParked == input = Null /\ fn = "none" /\ out = Null

None == [k |-> "none"]

\* The dashboard, not mounted
DashParked == rangeDays = 7 /\ endTimestamp = 0 /\ user = Null /\ quotaData = <<>>

\* The providers before anything is loaded
NoCredentials == [userId |-> <<>>, accessToken |-> <<>>]
AppParked ==
  /\ credentials = NoCredentials /\ authLoaded = FALSE
  /\ settingsBaseUrl = <<>> /\ settingsLoaded = FALSE
  /\ segment = "none" /\ gateStale = FALSE
  /\ me = Null /\ meLoaded = FALSE

\* No call of request
HttpParked ==
  /\ config = None /\ args = None /\ wire = None /\ response = None /\ result = None

InitJson ==
  /\ input \in JsonInputs
  /\ fn = "none"
  /\ out = Null
  /\ ListParked
  /\ HttpParked
  /\ DashParked
  /\ AppParked

Apply(name, value) ==
  /\ fn = "none"
  /\ fn' = name
  /\ out' = value
  /\ UNCHANGED <<input, listVars, httpVars, dashVars, appVars>>

ApplyUnwrap == Apply("unwrapApiData", unwrapApiData(input))
ApplyGetString == Apply("getString", getString(input, <<"id">>))
ApplyGetNumber == Apply("getNumber", getNumber(input, <<"id">>))
ApplyGetNumberNested == Apply("getNumberNested", getNumber(input, <<"data", "id">>))
ApplyAsArray == Apply("asArray", asArray(input))
ApplyParse == \E p \in ParserNames : Apply(p, Parse(p, input))
ApplyGetApiError == Apply("getApiError", getApiError(input))
ApplyTokensDeclaredError == Apply("tokensDeclaredError", tokensDeclaredError(input))
ApplyLogsDeclaredError == Apply("logsDeclaredError", inlineDeclaredError(input, LogsFailed))
ApplyTopupDeclaredError ==
  Apply("topupDeclaredError", inlineDeclaredError(input, TopupRecordsFailed))
ApplyBucketSizeSeconds ==
  /\ TypeOf(input) = "number"
  /\ Apply("bucketSizeSeconds", Num(bucketSizeSeconds(input.v)))
ApplyParseUser == Apply("parseUser", parseUser(input))
ApplyGetFirstArrayCandidate ==
  Apply("getFirstArrayCandidate", Arr(getFirstArrayCandidate(input)))

NextJson ==
  \/ ApplyUnwrap
  \/ ApplyGetString
  \/ ApplyGetNumber
  \/ ApplyGetNumberNested
  \/ ApplyAsArray
  \/ ApplyParse
  \/ ApplyGetApiError
  \/ ApplyTokensDeclaredError
  \/ ApplyLogsDeclaredError
  \/ ApplyTopupDeclaredError
  \/ ApplyBucketSizeSeconds
  \/ ApplyParseUser
  \/ ApplyGetFirstArrayCandidate

SpecJson == InitJson /\ [][NextJson]_vars

----------------------------------------------------------------------------
(* The list screens: React state, load(nextPage), the effect, the controls *)

MaxLoads == 2       \* loads issued in one run

\* The list screens; the three admin screens as an administrator sees them
Screens == {"tokens", "logs", "recharge", "redemptions", "channels", "users"}

\* useState(...) of pageSize
InitialPageSize(s) ==
  CASE s = "tokens" -> 50
    [] s = "channels" -> 10
    [] OTHER -> 20

\* The requests one load awaits (Promise.all), in order: the fallback text of a
\* declared failure and the label of an HTTP failure of each
Slot(fallback, label) == [fallback |-> fallback, label |-> label]
Slots(s) ==
  CASE s = "logs" ->
         << Slot(StatFailed, <<"stat failed: HTTP ">>),
            Slot(LogsFailed, <<"logs failed: HTTP ">>) >>
    [] s = "recharge" ->
         << Slot(UserInfoFailed, <<"user info failed: HTTP ">>),
            Slot(TopupInfoFailed, <<"topup info failed: HTTP ">>),
            Slot(TopupRecordsFailed, <<"topup records failed: HTTP ">>),
            Slot(StatusFailed, <<"status failed: HTTP ">>) >>
    [] OTHER -> << Slot(RequestFailed, <<"request failed: HTTP ">>) >>

\* The slot of the list request
ListSlot(s) == CASE s = "logs" -> 2 [] s = "recharge" -> 3 [] OTHER -> 1

parseList(s, body) ==
  CASE s = "tokens" -> parseTokens(body)
    [] s = "logs" -> parseLogs(body)
    [] s = "recharge" -> parseTopupRecords(body)
    [] s = "redemptions" -> parseRedemptions(body)
    [] s = "channels" -> parseChannels(body)
    [] s = "users" -> parseUsers(body)

\* The declared-failure check of slot i's body: the error text to set, or null
declaredError(s, i, body) ==
  CASE s = "tokens" -> tokensDeclaredError(body)
    [] s \in {"logs", "recharge"} -> inlineDeclaredError(body, Slots(s)[i].fallback)
    [] OTHER -> LET err == getApiError(body) IN IF Truthy(err) THEN err ELSE Null

\* A faulty order of the checks: the body of an answer that is not ok is not looked at
firstDeclared_okOnly(s, res) ==
  LET bad == {i \in 1..Len(res) : res[i].ok /\ declaredError(s, i, res[i].body) # Null} IN
  IF bad = {} THEN 0 ELSE SetMin(bad)

\* The first slot whose body declares a failure, 0 if none
firstDeclared(s, res) ==
  LET bad == {i \in 1..Len(res) : declaredError(s, i, res[i].body) # Null} IN
  IF bad = {} THEN 0 ELSE SetMin(bad)

\* `data`: the record carrying page, page_size and total, or null
listData(s, body) ==
  IF s = "tokens"
  THEN LET env == getApiEnvelope(body) IN
       IF Truthy(env) /\ isRecord(Get(env, "data")) THEN Get(env, "data") ELSE Null
  ELSE IF isRecord(body) /\ isRecord(Get(body, "data")) THEN Get(body, "data") ELSE Null

\* typeof data?.key === 'number' ? data.key : otherwise
numberOr(data, key, otherwise) ==
  IF data # Null /\ TypeOf(Get(data, key)) = "number" THEN Get(data, key).v ELSE otherwise

itemsLength(data) ==
  IF data # Null /\ ArrayIsArray(Get(data, "items")) THEN Len(Get(data, "items").v) ELSE 0

\* A faulty total: 0 on every screen when the server reports none
loadedTotal_zero(s, data) == numberOr(data, "total", 0)

\* The value handed to setTotal
loadedTotal(s, data) ==
  IF s \in {"tokens", "logs", "recharge"} THEN numberOr(data, "total", 0)
  ELSE numberOr(data, "total", itemsLength(data))

\* The value handed to setPage
loadedPage(s, data, nextPage) ==
  IF s = "channels" THEN nextPage ELSE numberOr(data, "page", nextPage)

\* The page size after a load: the channels screen never sets it; the others set the
\* server's page_size or the page size the load's closure captured
loadedPageSize(s, data, captured) ==
  IF s = "channels" THEN pageSize ELSE numberOr(data, "page_size", captured)

httpError(slot, status) == slot.label \o NumberToString(Num(status))

\* The error after the `if (!res.ok) setError(...)` lines: the first slot overwrites,
\* the later ones keep a non-empty previous text
RECURSIVE httpErrors(_, _, _, _)
httpErrors(s, res, i, prev) ==
  IF i > Len(res) THEN prev
  ELSE httpErrors(s, res, i + 1,
         IF res[i].ok THEN prev
         ELSE IF i = 1 \/ prev = <<>> THEN httpError(Slots(s)[i], res[i].status)
         ELSE prev)

Max(a, b) == IF a >= b THEN a ELSE b
Min(a, b) == IF a <= b THEN a ELSE b
\* Math.ceil(a / b) for a >= 0, b > 0
CeilDiv(a, b) == (a + b - 1) \div b

\* maxPage of the tokens and logs screens for a page, page size and total; inf stands
\* for Infinity (total / 0)
maxPageOf(s, p, ps, t) ==
  IF t = 0 THEN [inf |-> FALSE, n |-> p]
  ELSE IF s = "tokens" THEN [inf |-> FALSE, n |-> Max(1, CeilDiv(t, Max(1, ps)))]
  ELSE IF ps = 0 THEN [inf |-> TRUE, n |-> 0]
  ELSE [inf |-> FALSE, n |-> Max(1, CeilDiv(t, ps))]

maxPage(s) == maxPageOf(s, page, pageSize, total)

canPrev == page > 1

\* A faulty canNext: without a total, a page that misses one entity counts as full
canNextOf_nearlyFull(s, p, ps, t, count) ==
  IF t <= 0 THEN count + 1 >= ps ELSE p * ps < t

\* A faulty canNext: the last page still offers a next page
canNextOf_inclusive(s, p, ps, t, count) == p * ps <= t

\* canNext for a page, page size, total and number of displayed items
canNextOf(s, p, ps, t, count) ==
  CASE s = "logs" -> maxPageOf(s, p, ps, t).inf \/ p < maxPageOf(s, p, ps, t).n
    [] s = "tokens" ->
         IF t <= 0 THEN count >= ps
         ELSE maxPageOf(s, p, ps, t).inf \/ p < maxPageOf(s, p, ps, t).n
    [] OTHER ->
         IF t <= 0 THEN count >= ps ELSE p * ps < t

canNext(s) == canNextOf(s, page, pageSize, total, Len(items))

\* The page the next button asks for
nextTarget(s) ==
  IF s \in {"tokens", "logs"} /\ ~maxPage(s).inf THEN Min(maxPage(s).n, page + 1)
  ELSE page + 1

----------------------------------------------------------------------------
(* What the server may answer *)

Response(status, body) == [ok |-> status \in 200..299, status |-> status, body |-> body]

Row(i) == Obj(<< <<"id", Num(i)>>, <<"username", Str(<<"u">>)>> >>)
Rows(n) == [i \in 1..n |-> Row(i)]

\* n rows of which the last one carries no id
RowsWithGap(n) ==
  [i \in 1..n |-> IF i = n THEN Obj(<< <<"username", Str(<<"u">>)>> >>) ELSE Row(i)]

Success(data) == Obj(<< <<"success", Bool(TRUE)>>, <<"data", data>> >>)
Failure(message, more) ==
  Obj(<< <<"success", Bool(FALSE)>>, <<"message", Str(message)>> >> \o more)

\* Answers to the list request of a load that asked for page p with page size ps
ListResponses(p, ps) ==
  { Response(200, Arr(Rows(ps))),
    Response(200, Arr(Rows(Max(0, ps - 1)))),
    Response(200, Success(Obj(<< <<"items", Arr(Rows(ps))>>, <<"total", Num(2 * ps + 1)>>,
                                 <<"page", Num(p)>> >>))),
    Response(200, Success(Obj(<< <<"items", Arr(Rows(2))>>, <<"total", Num(5)>>,
                                 <<"page", Num(2)>>, <<"page_size", Num(2)>> >>))),
    Response(200, Success(Obj(<< <<"items", Arr(Rows(ps))>> >>))),
    Response(200, Arr(RowsWithGap(ps))),
    Response(200, Success(Obj(<< <<"items", Arr(RowsWithGap(ps))>> >>))),
    Response(200, Success(Obj(<< <<"items", Arr(Rows(1))>>, <<"page", Num(0)>>,
                                 <<"page_size", Num(0)>> >>))),
    Response(200, Failure(<<"q">>, << <<"data", Obj(<< <<"items", Arr(Rows(1))>>,
                                                       <<"total", Num(9)>> >>)>> >>)),
    Response(200, Failure(<<>>, <<>>)),
    Response(500, Failure(<<"q">>, <<>>)),
    Response(500, Str(<<"e">>)) }

\* Answers to the other requests of a load
AuxFine == Response(200, Success(Obj(<<>>)))
AuxDeclared == Response(200, Failure(<<"x">>, <<>>))
AuxHttp == Response(502, Str(<<"e">>))

\* The answers to all requests of one load, in slot order
Outcomes(s, p, ps) ==
  CASE s = "logs" ->
         {<<AuxFine, l>> : l \in ListResponses(p, ps)}
           \cup {<<a, l>> : a \in {AuxDeclared, AuxHttp},
                           l \in {Response(200, Arr(Rows(ps))), Response(500, Str(<<"e">>))}}
    [] s = "recharge" ->
         {<<AuxFine, AuxFine, l, AuxFine>> : l \in ListResponses(p, ps)}
           \cup {<<a[1], a[2], Response(200, Arr(Rows(ps))), a[3]>> :
                   a \in { <<AuxDeclared, AuxFine, AuxFine>>, <<AuxFine, AuxDeclared, AuxHttp>>,
                           <<AuxHttp, AuxFine, AuxFine>>, <<AuxFine, AuxFine, AuxHttp>> }}
    [] OTHER -> {<<l>> : l \in ListResponses(p, ps)}

\* e.message of what api.request throws
BaseUrlUnset == <<"Base URL unset">>
InvalidUrl == <<"Invalid URL">>
NetworkFailed == <<"Network request failed">>
ThrownMessages == {BaseUrlUnset, InvalidUrl, NetworkFailed}

----------------------------------------------------------------------------
(* The list controller as a state machine (Spec) *)

\* Page sizes offered by the chips of the logs screen
PageSizeChips == {10, 20, 50}
\* Numbers typed into the page-size input of the channels screen
TypedPageSizes == {0, 3}

Init ==
  /\ screen \in Screens
  /\ busy = FALSE
  /\ error = <<>>
  /\ items = <<>>
  /\ page = 1
  /\ pageSize = InitialPageSize(screen)
  /\ total = 0
  /\ inflight = {}
  /\ issued = 0
  /\ loadStale = TRUE
  /\ last = NoStep
  /\ JsonParked
  /\ HttpParked
  /\ DashParked
  /\ AppParked

\* The synchronous part of load(nextPage), up to the await: setError(''),
\* setBusy(true), and the requests leave with the page size of the closure
StartLoad(op, nextPage, captured) ==
  LET req == [seq |-> issued + 1, nextPage |-> nextPage, pageSize |-> captured] IN
  /\ issued < MaxLoads
  /\ error' = <<>>
  /\ busy' = TRUE
  /\ inflight' = inflight \cup {req}
  /\ issued' = issued + 1
  /\ last' = [op |-> op, req |-> req, threw |-> FALSE, res |-> <<>>]

\* The effect of the first render has run
Mounted == issued > 0

\* useEffect(() => { void load(1) }, [load]): it runs after the first render, and
\* again after a render in which load is a new function. useApi() builds a new
\* client in every render, so load is new after every committed render unless the
\* build memoizes the hook; the step is therefore possible after each render and
\* never forced.
EffectLoad ==
  /\ loadStale
  /\ StartLoad("effect", 1, pageSize)
  /\ loadStale' = (error # <<>> \/ ~busy)
  /\ UNCHANGED <<items, page, pageSize, total, screen, jsonVars, appVars, httpVars, dashVars>>

Prev ==
  /\ Mounted
  /\ ~busy /\ canPrev
  /\ StartLoad("prev", Max(1, page - 1), pageSize)
  /\ loadStale' = TRUE
  /\ UNCHANGED <<items, page, pageSize, total, screen, jsonVars, appVars, httpVars, dashVars>>

Refresh ==
  /\ Mounted
  /\ ~busy
  /\ StartLoad("refresh", page, pageSize)
  /\ loadStale' = TRUE
  /\ UNCHANGED <<items, page, pageSize, total, screen, jsonVars, appVars, httpVars, dashVars>>

NextPage ==
  /\ Mounted
  /\ ~busy /\ canNext(screen)
  /\ StartLoad("next", nextTarget(screen), pageSize)
  /\ loadStale' = TRUE
  /\ UNCHANGED <<items, page, pageSize, total, screen, jsonVars, appVars, httpVars, dashVars>>

\* The search / apply button of the filter form
Search ==
  /\ Mounted
  /\ screen # "tokens"
  /\ ~busy
  /\ StartLoad("search", 1, pageSize)
  /\ loadStale' = TRUE
  /\ UNCHANGED <<items, page, pageSize, total, screen, jsonVars, appVars, httpVars, dashVars>>

\* A page-size chip of the logs screen: setPageSize(s); setPage(1); void load(1),
\* where load is still the function of the render that drew the chip
ChoosePageSize ==
  /\ Mounted
  /\ screen = "logs"
  /\ ~busy
  /\ \E s \in PageSizeChips :
       /\ pageSize' = s
       /\ page' = 1
       /\ StartLoad("pageSize", 1, pageSize)
  /\ loadStale' = TRUE
  /\ UNCHANGED <<items, total, screen, jsonVars, appVars, httpVars, dashVars>>

\* The page-size input of the channels screen
TypePageSize ==
  /\ Mounted
  /\ screen = "channels"
  /\ \E n \in TypedPageSizes :
       /\ n > 0
       /\ Min(100, n) # pageSize
       /\ pageSize' = Min(100, n)
  /\ loadStale' = TRUE
  /\ last' = [op |-> "typePageSize", req |-> NoRequest, threw |-> FALSE, res |-> <<>>]
  /\ UNCHANGED <<busy, error, items, page, total, inflight, issued, screen, jsonVars, appVars, httpVars, dashVars>>

\* A filter input changes: the screen renders again
EditFilter ==
  /\ Mounted
  /\ screen # "tokens"
  /\ ~loadStale
  /\ loadStale' = TRUE
  /\ last' = [op |-> "editFilter", req |-> NoRequest, threw |-> FALSE, res |-> <<>>]
  /\ UNCHANGED <<busy, error, items, page, pageSize, total, inflight, issued, screen,
                 jsonVars, appVars, httpVars, dashVars>>

\* The same as applied below, with a generation check, which the screens do not have
applied_ifNewest(r, res) ==
  LET body == res[ListSlot(screen)].body
      data == listData(screen, body) IN
  IF r.seq = issued
  THEN [ items |-> parseList(screen, body),
         page |-> loadedPage(screen, data, r.nextPage),
         pageSize |-> loadedPageSize(screen, data, r.pageSize),
         total |-> loadedTotal(screen, data) ]
  ELSE [items |-> items, page |-> page, pageSize |-> pageSize, total |-> total]

\* What setItems, setPage, setPageSize and setTotal receive when the answers res of
\* the load r are applied
applied(r, res) ==
  LET body == res[ListSlot(screen)].body
      data == listData(screen, body) IN
  [ items |-> parseList(screen, body),
    page |-> loadedPage(screen, data, r.nextPage),
    pageSize |-> loadedPageSize(screen, data, r.pageSize),
    total |-> loadedTotal(screen, data) ]

\* The rest of load after the await, for the answers res
Settle(r, res) ==
  LET d == firstDeclared(screen, res) IN
  /\ inflight' = inflight \ {r}
  /\ busy' = FALSE
  /\ last' = [op |-> "resolve", req |-> r, threw |-> FALSE, res |-> res]
  /\ IF d # 0
     THEN /\ error' = declaredError(screen, d, res[d].body).v
          /\ UNCHANGED <<items, page, pageSize, total>>
          /\ loadStale' = (loadStale \/ busy \/ error' # error)
     ELSE \E a \in {applied(r, res)} :
          /\ items' = a.items
          /\ page' = a.page
          /\ pageSize' = a.pageSize
          /\ total' = a.total
          /\ error' = httpErrors(screen, res, 1, error)
          /\ loadStale' = TRUE
  /\ UNCHANGED <<issued, screen, jsonVars, appVars, httpVars, dashVars>>

\* The requests of a load are answered
Resolve ==
  \E r \in inflight :
    \E res \in Outcomes(screen, r.nextPage, r.pageSize) : Settle(r, res)

\* api.request throws: catch sets the message, finally clears busy
Throw ==
  \E r \in inflight :
    \E m \in ThrownMessages :
      /\ inflight' = inflight \ {r}
      /\ error' = m
      /\ busy' = FALSE
      /\ loadStale' = (loadStale \/ busy \/ error # m)
      /\ last' = [op |-> "resolve", req |-> r, threw |-> TRUE, res |-> <<>>]
      /\ UNCHANGED <<items, page, pageSize, total, issued, screen, jsonVars, appVars, httpVars, dashVars>>

Next ==
  \/ EffectLoad
  \/ Prev
  \/ Refresh
  \/ NextPage
  \/ Search
  \/ ChoosePageSize
  \/ TypePageSize
  \/ EditFilter
  \/ Resolve
  \/ Throw

Spec == Init /\ [][Next]_vars

\* A mounted screen that is left alone, with a server that answers every request: only
\* the effect and the answers act
NextMount ==
  \/ EffectLoad
  \/ Resolve

SpecMount == Init /\ [][NextMount]_vars

----------------------------------------------------------------------------
(* The dashboard: app/(tabs)/index.tsx *)

\* What nowSeconds() may return: the evening of 1970-01-01 (a device whose clock was
\* reset) and a time in 2027
Clocks == {82800, 1800001234}

RangeChips == {1, 7, 30}

\* useMemo(() => endTimestamp - rangeDays * 24 * 3600)
startTimestamp == endTimestamp - rangeDays * 24 * 3600

\* a % b of JavaScript, b > 0: the sign is that of a
Rem(a, b) == IF a >= 0 THEN a % b ELSE 0 - ((0 - a) % b)

\* Math.floor(a / b), b > 0
FloorDiv(a, b) == a \div b

\* value ?? 0
OrZero(value) == Coalesce(value, Num(0)).v

\* new Array(n).fill(value)
RECURSIVE Filled(_, _)
Filled(n, value) == IF n = 0 THEN <<>> ELSE Append(Filled(n - 1, value), value)

\* The loop of the totals memo over the rows
RECURSIVE Totalled(_, _)
Totalled(acc, rows) ==
  IF rows = <<>> THEN acc
  ELSE Totalled([ totalQuota |-> acc.totalQuota + OrZero(rows[1].quota),
                  totalTimes |-> acc.totalTimes + OrZero(rows[1].count),
                  totalTokens |-> acc.totalTokens + OrZero(rows[1].tokenUsed) ],
                Tail(rows))

\* Faulty totals: the rows without a time are left out, as in the series
TotalsOf_timedOnly(data) ==
  Totalled([totalQuota |-> 0, totalTimes |-> 0, totalTokens |-> 0],
           SelectSeq(data, LAMBDA row : Truthy(row.createdAt)))

\* The totals memo (the per-model sums are left out)
TotalsOf(data) == Totalled([totalQuota |-> 0, totalTimes |-> 0, totalTokens |-> 0], data)

\* const totals = useMemo(...)
totals == TotalsOf(quotaData)

\* The loop over quotaData: the three arrays after the rows were added
RECURSIVE Accumulate(_, _, _, _, _)
Accumulate(acc, rows, start, size, buckets) ==
  IF rows = <<>> THEN acc
  ELSE LET row == rows[1]
           idx == FloorDiv(row.createdAt.v - start, size) IN
       IF ~Truthy(row.createdAt) THEN Accumulate(acc, Tail(rows), start, size, buckets)
       ELSE IF idx < 0 \/ idx >= buckets THEN Accumulate(acc, Tail(rows), start, size, buckets)
       ELSE Accumulate(
              [ quota |-> [acc.quota EXCEPT ![idx + 1] = @ + OrZero(row.quota)],
                tokens |-> [acc.tokens EXCEPT ![idx + 1] = @ + OrZero(row.tokenUsed)],
                times |-> [acc.times EXCEPT ![idx + 1] = @ + OrZero(row.count)] ],
              Tail(rows), start, size, buckets)

\* A faulty series: the start of the window is not aligned to the bucket size
Buckets_unaligned(startTs, endTs, data) ==
  LET rangeSeconds == endTs - startTs
      size == bucketSizeSeconds(rangeSeconds)
      start == startTs
      end == endTs - Rem(endTs, size)
      buckets == Max(1, FloorDiv(end - start, size) + 1)
      zeros == Filled(buckets, 0)
      sums == Accumulate([quota |-> zeros, tokens |-> zeros, times |-> zeros],
                         data, start, size, buckets) IN
  [ size |-> size, start |-> start, buckets |-> buckets,
    quota |-> sums.quota, tokens |-> sums.tokens, times |-> sums.times ]

\* The series memo up to the slicing: the bucket size, the aligned start, the number
\* of buckets and the three arrays of sums
Buckets(startTs, endTs, data) ==
  LET rangeSeconds == endTs - startTs
      size == bucketSizeSeconds(rangeSeconds)
      start == startTs - Rem(startTs, size)
      end == endTs - Rem(endTs, size)
      buckets == Max(1, FloorDiv(end - start, size) + 1)
      zeros == Filled(buckets, 0)
      sums == Accumulate([quota |-> zeros, tokens |-> zeros, times |-> zeros],
                         data, start, size, buckets) IN
  [ size |-> size, start |-> start, buckets |-> buckets,
    quota |-> sums.quota, tokens |-> sums.tokens, times |-> sums.times ]

\* array.slice(-take), take >= 1
SliceLast(array, take) ==
  SubSeq(array, Max(1, Len(array) - take + 1), Len(array))

\* A slicing that keeps the oldest buckets
SeriesOf_head(b) ==
  LET take == Min(24, b.buckets)
      quotaTail == SubSeq(b.quota, 1, take)
      tokensTail == SubSeq(b.tokens, 1, take)
      timesTail == SubSeq(b.times, 1, take) IN
  [ quota |-> quotaTail, tokens |-> tokensTail, times |-> timesTail,
    rpm |-> [i \in 1..Len(timesTail) |-> <<timesTail[i], b.size \div 60>>],
    tpm |-> [i \in 1..Len(tokensTail) |-> <<tokensTail[i], b.size \div 60>>] ]

\* The rest of the series memo: the last `take` buckets of each array, and the rates
\* v / (size / 60) as pairs <<v, size / 60>>. (avgRPM and avgTPM are left out.)
SeriesOf(b) ==
  LET take == Min(24, b.buckets)
      quotaTail == SliceLast(b.quota, take)
      tokensTail == SliceLast(b.tokens, take)
      timesTail == SliceLast(b.times, take) IN
  [ quota |-> quotaTail, tokens |-> tokensTail, times |-> timesTail,
    rpm |-> [i \in 1..Len(timesTail) |-> <<timesTail[i], b.size \div 60>>],
    tpm |-> [i \in 1..Len(tokensTail) |-> <<tokensTail[i], b.size \div 60>>] ]

\* const series = useMemo(...)
series == SeriesOf(Buckets(startTimestamp, endTimestamp, quotaData))

(* Answers *)

UsageRow(id, createdAt) ==
  Obj(<< <<"id", Num(id)>>, <<"created_at", Num(createdAt)>>, <<"count", Num(1)>>,
         <<"quota", Num(2)>>, <<"token_used", Num(3)>> >>)

\* The times of the rows of an answer to a request for [localStart, localEnd]
Stamps(localStart, localEnd) ==
  <<0, 3599, 3600, localStart - 1, localStart, localEnd, localEnd + 1>>

UsageRows(localStart, localEnd) ==
  LET stamps == Stamps(localStart, localEnd) IN
  [i \in 1..Len(stamps) |-> UsageRow(i, stamps[i])]

\* Answers to /api/data/self
DataResponses(localStart, localEnd) ==
  { Response(200, Arr(UsageRows(localStart, localEnd))),
    Response(200, Success(Arr(<< UsageRow(1, localEnd), UsageRow(2, localStart) >>))),
    Response(200, Success(Arr(<< Obj(<< <<"id", Num(1)>>, <<"count", Num(1)>> >>), Null >>))),
    Response(200, Failure(<<"q">>, << <<"data", Arr(UsageRows(localStart, localEnd))>> >>)),
    Response(500, Failure(<<"q">>, <<>>)),
    Response(500, Str(<<"e">>)) }

UserFine ==
  Response(200, Success(Obj(<< <<"id", Num(1)>>, <<"username", Str(<<"u">>)>>,
                               <<"quota", Num(5)>> >>)))

\* Answers to /api/user/self
UserResponses ==
  { UserFine,
    Response(200, Failure(<<"x">>, <<>>)),
    Response(502, Str(<<"e">>)) }

\* The answers to the two requests of one refresh
RefreshOutcomes(localStart, localEnd) ==
  {<<UserFine, d>> : d \in DataResponses(localStart, localEnd)}
    \cup {<<u, d>> : u \in UserResponses \ {UserFine},
                    d \in { Response(200, Arr(UsageRows(localStart, localEnd))),
                            Response(500, Failure(<<"q">>, <<>>)) }}

(* The screen *)

InitDashboard ==
  /\ screen = "dashboard"
  /\ busy = FALSE
  /\ error = <<>>
  /\ user = Null
  /\ quotaData = <<>>
  /\ rangeDays = 7
  /\ \E now \in Clocks : endTimestamp = now + 3600
  /\ items = <<>> /\ page = 1 /\ pageSize = 1 /\ total = 0
  /\ inflight = {}
  /\ issued = 0
  /\ loadStale = TRUE
  /\ last = NoStep
  /\ JsonParked
  /\ HttpParked
  /\ AppParked

\* The synchronous part of refresh, up to the await: setError(''), setBusy(true), and
\* the requests leave for the window that ends an hour from now
StartRefresh(op) ==
  \E now \in Clocks :
    LET req == [seq |-> issued + 1, localEnd |-> now + 3600, rangeDays |-> rangeDays] IN
    /\ issued < MaxLoads
    /\ error' = <<>>
    /\ busy' = TRUE
    /\ inflight' = inflight \cup {req}
    /\ issued' = issued + 1
    /\ last' = [op |-> op, req |-> req, threw |-> FALSE, res |-> <<>>]

\* useEffect(() => { void refresh() }, [refresh]): as the effect of the list screens,
\* possible after each render and never forced
EffectRefresh ==
  /\ loadStale
  /\ StartRefresh("effect")
  /\ loadStale' = (error # <<>> \/ ~busy)
  /\ UNCHANGED <<dashVars, items, page, pageSize, total, screen, jsonVars, appVars, httpVars>>

\* The refresh button
PressRefresh ==
  /\ Mounted
  /\ ~busy
  /\ StartRefresh("refresh")
  /\ loadStale' = TRUE
  /\ UNCHANGED <<dashVars, items, page, pageSize, total, screen, jsonVars, appVars, httpVars>>

\* A range chip: setRangeDays(d); setEndTimestamp(nowSeconds() + 3600)
ChooseRange ==
  /\ Mounted
  /\ ~busy
  /\ \E d \in RangeChips, now \in Clocks :
       /\ rangeDays' = d
       /\ endTimestamp' = now + 3600
       /\ <<rangeDays', endTimestamp'>> # <<rangeDays, endTimestamp>>
  /\ loadStale' = TRUE
  /\ last' = [op |-> "range", req |-> NoRequest, threw |-> FALSE, res |-> <<>>]
  /\ UNCHANGED <<user, quotaData, busy, error, inflight, issued, items, page, pageSize, total,
                 screen, jsonVars, appVars, httpVars>>

\* The first declared failure of the two answers, user first: the text, or null
refreshDeclaredError(res) ==
  IF Truthy(getApiError(res[1].body)) THEN getApiError(res[1].body)
  ELSE IF Truthy(getApiError(res[2].body)) THEN getApiError(res[2].body)
  ELSE Null

\* [userRes, dataRes].find((r) => !r.ok): the text that is set, the previous one
\* without such an answer
refreshHttpError(res, prev) ==
  LET bad == {i \in 1..Len(res) : ~res[i].ok} IN
  IF bad = {} THEN prev
  ELSE <<"request failed: HTTP ">> \o NumberToString(Num(res[SetMin(bad)].status))

\* The rest of refresh after the await, for the answers res
SettleRefresh(r, res) ==
  /\ inflight' = inflight \ {r}
  /\ busy' = FALSE
  /\ last' = [op |-> "resolve", req |-> r, threw |-> FALSE, res |-> res]
  /\ IF refreshDeclaredError(res) # Null
     THEN /\ error' = refreshDeclaredError(res).v
          /\ UNCHANGED dashVars
          /\ loadStale' = (loadStale \/ busy \/ error' # error)
     ELSE /\ endTimestamp' = r.localEnd
          /\ user' = parseUser(res[1].body)
          /\ quotaData' = parseQuotaData(res[2].body)
          /\ error' = refreshHttpError(res, error)
          /\ rangeDays' = rangeDays
          /\ loadStale' = TRUE
  /\ UNCHANGED <<issued, items, page, pageSize, total, screen, jsonVars, appVars, httpVars>>

\* The two requests of a refresh are answered
ResolveRefresh ==
  \E r \in inflight :
    \E res \in RefreshOutcomes(r.localEnd - r.rangeDays * 24 * 3600, r.localEnd) :
      SettleRefresh(r, res)

\* api.request throws: catch sets the message, finally clears busy
ThrowRefresh ==
  \E r \in inflight :
    \E m \in {NetworkFailed} :
      /\ inflight' = inflight \ {r}
      /\ error' = m
      /\ busy' = FALSE
      /\ loadStale' = (loadStale \/ busy \/ error # m)
      /\ last' = [op |-> "resolve", req |-> r, threw |-> TRUE, res |-> <<>>]
      /\ UNCHANGED <<dashVars, issued, items, page, pageSize, total, screen, jsonVars, appVars, httpVars>>

NextDashboard ==
  \/ EffectRefresh
  \/ PressRefresh
  \/ ChooseRange
  \/ ResolveRefresh
  \/ ThrowRefresh

SpecDashboard == InitDashboard /\ [][NextDashboard]_vars

----------------------------------------------------------------------------
(* The providers and the auth gate (SpecApp) *)

\* What the storage may hold for the credentials (read with trim) and what the login
\* and settings screens pass to setCredentials (trimmed inputs)
CredentialValues ==
  {[userId |-> u, accessToken |-> t] : u \in {<<>>, <<"7">>}, t \in {<<>>, <<"t">>}}

\* What the storage may hold for the server address, normalized
StoredBaseUrls == {<<>>, <<"https://", "h">>}

\* segments[0]
Segments == {"(auth)", "(tabs)", "modal"}

\* Answers to the /api/user/self of MeProvider: those of the dashboard and a root user
MeResponses ==
  UserResponses \cup
    { Response(200, Success(Obj(<< <<"id", Num(1)>>, <<"username", Str(<<"r">>)>>,
                                   <<"role", Num(100)>> >>))) }

\* const isSignedIn = !!state.userId && !!state.accessToken
isSignedIn == credentials.userId # <<>> /\ credentials.accessToken # <<>>

\* const role = me?.role ?? 0
role == IF me = Null THEN 0 ELSE OrZero(me.role)
isAdmin == role >= 10
isRoot == role >= 100

InitApp ==
  /\ screen = "app"
  /\ credentials = NoCredentials /\ authLoaded = FALSE
  /\ settingsBaseUrl = <<>> /\ settingsLoaded = FALSE
  /\ segment \in Segments
  /\ gateStale = TRUE
  /\ me = Null /\ meLoaded = FALSE
  /\ inflight = {}
  /\ issued = 0
  /\ loadStale = TRUE
  /\ last = NoStep
  /\ busy = FALSE /\ error = <<>>
  /\ items = <<>> /\ page = 1 /\ pageSize = 1 /\ total = 0
  /\ JsonParked
  /\ HttpParked
  /\ DashParked

\* A step that is not the end of a request
AppStep(op) == last' = [op |-> op, req |-> NoRequest, threw |-> FALSE, res |-> <<>>]

appFrame == <<screen, busy, error, items, page, pageSize, total, jsonVars, httpVars, dashVars>>

\* AuthProvider: the stored credentials have been read
AuthLoad ==
  /\ ~authLoaded
  /\ \E c \in CredentialValues : credentials' = c
  /\ authLoaded' = TRUE
  /\ gateStale' = TRUE
  /\ loadStale' = TRUE
  /\ AppStep("authLoad")
  /\ UNCHANGED <<settingsBaseUrl, settingsLoaded, segment, me, meLoaded, inflight, issued, appFrame>>

\* SettingsProvider: the stored server address has been read
SettingsLoad ==
  /\ ~settingsLoaded
  /\ \E b \in StoredBaseUrls : settingsBaseUrl' = b
  /\ settingsLoaded' = TRUE
  /\ gateStale' = TRUE
  /\ loadStale' = TRUE
  /\ AppStep("settingsLoad")
  /\ UNCHANGED <<credentials, authLoaded, segment, me, meLoaded, inflight, issued, appFrame>>

\* setBaseUrl of the settings screen, once the stored address has been read
SetBaseUrl ==
  /\ settingsLoaded
  /\ \E b \in StoredBaseUrls \ {settingsBaseUrl} : settingsBaseUrl' = b
  /\ loadStale' = TRUE
  /\ AppStep("setBaseUrl")
  /\ UNCHANGED <<credentials, authLoaded, settingsLoaded, segment, gateStale, me, meLoaded,
                 inflight, issued, appFrame>>

\* setCredentials({userId, accessToken}) of the login and the settings screen, once
\* the stored credentials have been read
SetCredentials ==
  /\ authLoaded
  /\ \E c \in CredentialValues \ {credentials} : credentials' = c
  /\ gateStale' = (gateStale \/ isSignedIn' # isSignedIn)
  /\ loadStale' = TRUE
  /\ AppStep("setCredentials")
  /\ UNCHANGED <<authLoaded, settingsBaseUrl, settingsLoaded, segment, me, meLoaded, inflight,
                 issued, appFrame>>

\* logout: setState({ userId: '', accessToken: '' })
Logout ==
  /\ authLoaded
  /\ credentials' = NoCredentials
  /\ gateStale' = (gateStale \/ isSignedIn)
  /\ loadStale' = TRUE
  /\ AppStep("logout")
  /\ UNCHANGED <<authLoaded, settingsBaseUrl, settingsLoaded, segment, me, meLoaded, inflight,
                 issued, appFrame>>

\* The user, or a link, moves the router to another group
Navigate ==
  /\ \E g \in Segments \ {segment} : segment' = g
  /\ gateStale' = TRUE
  /\ AppStep("navigate")
  /\ UNCHANGED <<credentials, authLoaded, settingsBaseUrl, settingsLoaded, me, meLoaded,
                 inflight, issued, loadStale, appFrame>>

\* A faulty gate: it does not wait for the stored values
gateTarget_eager(authIsLoaded, settingsAreLoaded, signedIn, group) ==
  IF ~signedIn /\ group # "(auth)" THEN "login"
  ELSE IF signedIn /\ group = "(auth)" THEN "tabs"
  ELSE "none"

\* The body of the gate's effect: where it sends the router, if anywhere
gateTarget(authIsLoaded, settingsAreLoaded, signedIn, group) ==
  IF ~authIsLoaded \/ ~settingsAreLoaded THEN "none"
  ELSE IF ~signedIn /\ group # "(auth)" THEN "login"
  ELSE IF signedIn /\ group = "(auth)" THEN "tabs"
  ELSE "none"

\* The gate's effect runs: after the first render and after a render in which one of
\* authLoaded, settingsLoaded, isSignedIn, segments differs
GateEffect ==
  /\ gateStale
  /\ \E target \in {gateTarget(authLoaded, settingsLoaded, isSignedIn, segment)} :
       /\ segment' = CASE target = "login" -> "(auth)"
                       [] target = "tabs" -> "(tabs)"
                       [] OTHER -> segment
       /\ AppStep(CASE target = "login" -> "redirectLogin"
                    [] target = "tabs" -> "redirectTabs"
                    [] OTHER -> "gateIdle")
  /\ gateStale' = (segment' # segment)
  /\ UNCHANGED <<credentials, authLoaded, settingsBaseUrl, settingsLoaded, me, meLoaded,
                 inflight, issued, loadStale, appFrame>>

\* MeProvider's effect runs refresh, the one of the current render: without a server
\* address, loaded credentials or a signed-in user it clears me; otherwise it sends
\* /api/user/self. isLoaded ends true either way (the effect's finally).
MeEffect ==
  /\ loadStale
  /\ IF settingsBaseUrl = <<>> \/ ~authLoaded \/ ~isSignedIn
     THEN /\ me' = Null
          /\ meLoaded' = TRUE
          /\ loadStale' = (me # Null \/ ~meLoaded)
          /\ AppStep("meCleared")
          /\ UNCHANGED <<inflight, issued>>
     ELSE LET req == [seq |-> issued + 1, sentAs |-> credentials] IN
          /\ issued < MaxLoads
          /\ inflight' = inflight \cup {req}
          /\ issued' = issued + 1
          /\ loadStale' = FALSE
          /\ last' = [op |-> "meRequest", req |-> req, threw |-> FALSE, res |-> <<>>]
          /\ UNCHANGED <<me, meLoaded>>
  /\ UNCHANGED <<credentials, authLoaded, settingsBaseUrl, settingsLoaded, segment, gateStale,
                 appFrame>>

\* The rest of refresh after the await: what setMe receives for the answer's body
meAfter(r, body) ==
  IF isRecord(body) /\ HasKey(body, "success") /\ Get(body, "success") = Bool(FALSE)
  THEN Null
  ELSE parseUser(body)

\* A request of refresh is answered
MeResolve ==
  \E r \in inflight, res \in MeResponses :
    /\ me' = meAfter(r, res.body)
    /\ meLoaded' = TRUE
    /\ inflight' = inflight \ {r}
    /\ loadStale' = TRUE
    /\ last' = [op |-> "meResolve", req |-> r, threw |-> FALSE, res |-> <<res>>]
    /\ UNCHANGED <<credentials, authLoaded, settingsBaseUrl, settingsLoaded, segment, gateStale,
                   issued, appFrame>>

\* A request of refresh throws: me stays, and the effect's finally sets isLoaded unless
\* the effect was cleaned up in the meantime
MeThrow ==
  \E r \in inflight :
    /\ inflight' = inflight \ {r}
    /\ meLoaded' \in {meLoaded, TRUE}
    /\ loadStale' = (loadStale \/ meLoaded' # meLoaded)
    /\ last' = [op |-> "meResolve", req |-> r, threw |-> TRUE, res |-> <<>>]
    /\ UNCHANGED <<credentials, authLoaded, settingsBaseUrl, settingsLoaded, segment, gateStale,
                   me, issued, appFrame>>

NextApp ==
  \/ AuthLoad
  \/ SettingsLoad
  \/ SetBaseUrl
  \/ SetCredentials
  \/ Logout
  \/ Navigate
  \/ GateEffect
  \/ MeEffect
  \/ MeResolve
  \/ MeThrow

SpecApp == InitApp /\ [][NextApp]_vars


----------------------------------------------------------------------------
(* lib/url, lib/json and the API client: one call of request (SpecHttp) *)

\* Addresses are sequences of these pieces: a scheme with its "://", a host, a path
\* segment, "/" and " "
Schemes == {"https://", "http://"}
Hosts == {"h"}

RECURSIVE StripTrailingSlashes(_)
\* replace(/\/+$/, '')
StripTrailingSlashes(s) ==
  IF s # <<>> /\ s[Len(s)] = "/" THEN StripTrailingSlashes(SubSeq(s, 1, Len(s) - 1)) ELSE s

normalizeBaseUrl(in) ==
  LET trimmed == Trim(in) IN
  IF trimmed = <<>> THEN <<>> ELSE StripTrailingSlashes(trimmed)

joinUrl(baseUrl, path) ==
  LET base == normalizeBaseUrl(baseUrl) IN
  IF base = <<>> THEN path
  ELSE IF path = <<>> THEN base
  ELSE IF path[1] = "/" THEN base \o path
  ELSE base \o <<"/">> \o path

\* new URL(s): null stands for the TypeError thrown when s is not an absolute
\* address; an address without a path gets the path "/"
newURL(s) ==
  IF Len(s) >= 2 /\ s[1] \in Schemes /\ s[2] \in Hosts
  THEN [href |-> IF Len(s) = 2 THEN s \o <<"/">> ELSE s, search |-> <<>>]
  ELSE Null

\* String(v) of a query value
String(v) ==
  CASE v.k = "str" -> v.v
    [] v.k = "bool" -> IF v.v THEN <<"true">> ELSE <<"false">>
    [] v.k = "undefined" -> <<"undefined">>
    [] OTHER -> NumberToString(v)

\* searchParams.set(name, value): the first pair of that name gets the value and the
\* other pairs of that name go; without one the pair is appended
searchParamsSet(search, name, value) ==
  LET at == {i \in 1..Len(search) : search[i][1] = name} IN
  IF at = {} THEN Append(search, <<name, value>>)
  ELSE LET first == SetMin(at)
           kept == [i \in 1..Len(search) |->
                      IF i = first THEN <<name, value>>
                      ELSE IF i \in at THEN Null ELSE search[i]] IN
       SelectSeq(kept, notNull)

\* The loop over Object.entries(args.query), with every entry serialized
RECURSIVE serializeQuery_keepUndefined(_, _)
serializeQuery_keepUndefined(search, entries) ==
  IF entries = <<>> THEN search
  ELSE serializeQuery_keepUndefined(
         searchParamsSet(search, entries[1][1], String(entries[1][2])), Tail(entries))

\* The loop over Object.entries(args.query)
RECURSIVE serializeQuery(_, _)
serializeQuery(search, entries) ==
  IF entries = <<>> THEN search
  ELSE LET k == entries[1][1]
           v == entries[1][2] IN
       serializeQuery(IF v = Undefined THEN search ELSE searchParamsSet(search, k, String(v)),
                      Tail(entries))

\* headers[name] = value
setHeader(headers, name, value) == searchParamsSet(headers, name, value)

\* A client whose access-token toggle is only honoured together with the user-id toggle
requestHeaders_coupledToggles(cfg, a) ==
  LET sendUserId == IF a.auth.sendUserId = Undefined THEN TRUE ELSE a.auth.sendUserId.v
      sendAccessToken ==
        IF a.auth.sendAccessToken = Undefined THEN TRUE ELSE a.auth.sendAccessToken.v
      h1 == IF sendUserId /\ cfg.userId # <<>>
            THEN setHeader(<<>>, "New-Api-User", cfg.userId) ELSE <<>>
      h2 == IF (sendAccessToken \/ sendUserId) /\ cfg.accessToken # <<>>
            THEN setHeader(h1, "Authorization", <<"Bearer ">> \o cfg.accessToken) ELSE h1 IN
  IF a.body # Undefined THEN setHeader(h2, "Content-Type", <<"application/json">>) ELSE h2

\* The headers of the call
requestHeaders(cfg, a) ==
  LET sendUserId == IF a.auth.sendUserId = Undefined THEN TRUE ELSE a.auth.sendUserId.v
      sendAccessToken ==
        IF a.auth.sendAccessToken = Undefined THEN TRUE ELSE a.auth.sendAccessToken.v
      h1 == IF sendUserId /\ cfg.userId # <<>>
            THEN setHeader(<<>>, "New-Api-User", cfg.userId) ELSE <<>>
      h2 == IF sendAccessToken /\ cfg.accessToken # <<>>
            THEN setHeader(h1, "Authorization", <<"Bearer ">> \o cfg.accessToken) ELSE h1 IN
  IF a.body # Undefined THEN setHeader(h2, "Content-Type", <<"application/json">>) ELSE h2

\* contentType.includes('application/json')
IncludesJson(contentType) ==
  \E i \in 1..Len(contentType) : contentType[i] = "application/json"

Failed == [k |-> "failed"]

\* A faulty reader: it tries response.json() whatever the content type says
readResponseBody_jsonFirst(resp) ==
  IF resp.json # Failed THEN resp.json
  ELSE IF resp.text = Failed THEN Null ELSE resp.text

\* readResponseBody(response); json and text are what response.json() and
\* response.text() give, Failed when they reject
readResponseBody(resp) ==
  LET contentType == IF resp.contentType = Null THEN <<>> ELSE resp.contentType.v IN
  IF IncludesJson(contentType)
  THEN IF resp.json = Failed THEN Null ELSE resp.json
  ELSE IF resp.text = Failed THEN Null ELSE resp.text

Returned(ok, status, body) == [k |-> "returned", ok |-> ok, status |-> status, body |-> body]
Threw(message) == [k |-> "threw", message |-> message]

\* A client that rejects the answers that are not 2xx
requestResult_rejectNotOk(resp) ==
  IF resp.status \in 200..299
  THEN Returned(TRUE, resp.status, readResponseBody(resp))
  ELSE Threw(<<"HTTP ">> \o NumberToString(Num(resp.status)))

\* return { ok: response.ok, status: response.status, body }
requestResult(resp) ==
  Returned(resp.status \in 200..299, resp.status, readResponseBody(resp))

(* Inputs *)

MaxQuery == 2       \* entries of a query map

\* What a user may type as the server address; the settings store what
\* normalizeBaseUrl makes of it
TypedBaseUrls ==
  { <<>>, <<" ">>, <<"https://", "h">>, <<" ", "https://", "h", "/", "/", " ">>,
    <<"http://", "h", "/", "v1">>, <<"h">> }
BaseUrls == {normalizeBaseUrl(b) : b \in TypedBaseUrls}

Configs ==
  [k : {"config"}, baseUrl : BaseUrls, userId : {<<>>, <<"7">>}, accessToken : {<<>>, <<"t">>}]
DefaultConfig ==
  [k |-> "config", baseUrl |-> <<"https://", "h">>, userId |-> <<"7">>, accessToken |-> <<"t">>]

Paths == {<<"/", "api">>, <<"api">>, <<>>}

QueryKeys == {"p", "page_size", "keyword"}
QueryValues == {Undefined, Num(0), Bool(FALSE), Str(<<>>), Str(<<"a">>)}

\* The entry lists of the query maps with at most n keys, no key twice
RECURSIVE QueryEntries(_)
QueryEntries(n) ==
  IF n = 0 THEN {<<>>}
  ELSE LET shorter == QueryEntries(n - 1) IN
       shorter \cup
         { Append(q, <<key, v>>) :
             q \in {e \in shorter : Len(e) = n - 1},
             key \in QueryKeys, v \in QueryValues }

DistinctKeys(q) == \A i, j \in 1..Len(q) : i # j => q[i][1] # q[j][1]

Queries == {Obj(q) : q \in {e \in QueryEntries(MaxQuery) : DistinctKeys(e)}}

AuthToggles == {Undefined, Bool(TRUE), Bool(FALSE)}
BothCredentials == [sendUserId |-> Undefined, sendAccessToken |-> Undefined]

\* Calls that differ in everything but the query
CallsByShape ==
  [ k : {"args"}, path : Paths,
    query : {Undefined, Obj(<< <<"p", Num(1)>>, <<"keyword", Undefined>> >>)},
    body : {Undefined, Obj(<<>>)},
    auth : { [sendUserId |-> u, sendAccessToken |-> t] :
               u \in AuthToggles, t \in AuthToggles } ]

\* Calls that differ in the query only
CallsByQuery ==
  [ k : {"args"}, path : {<<"/", "api">>}, query : Queries, body : {Undefined},
    auth : {BothCredentials} ]

JsonContentType == Str(<<"application/json", "; charset=utf-8">>)
HtmlContentType == Str(<<"text/html">>)

\* What fetch may resolve with
Responses ==
  { [k |-> "response", status |-> st, contentType |-> c[1], json |-> c[2], text |-> c[3]] :
      st \in {200, 204, 404, 500},
      c \in { <<JsonContentType, Success(Arr(<<>>)), Failed>>,
              <<JsonContentType, Failure(<<"q">>, <<>>), Failed>>,
              <<JsonContentType, Failed, Failed>>,
              <<JsonContentType, Success(Arr(<<>>)), Str(<<"j">>)>>,
              <<HtmlContentType, Failed, Str(<<"e">>)>>,
              <<HtmlContentType, Success(Arr(<<>>)), Str(<<"j">>)>>,
              <<Null, Failed, Str(<<>>)>>,
              <<Null, Failed, Failed>> } }

InitHttp ==
  /\ \/ config \in Configs /\ args \in CallsByShape
     \/ config = DefaultConfig /\ args \in CallsByQuery
  /\ wire = None
  /\ response = None
  /\ result = None
  /\ JsonParked
  /\ ListParked
  /\ DashParked
  /\ AppParked

\* request, up to the call of fetch
Call ==
  /\ wire = None /\ result = None
  /\ IF config.baseUrl = <<>>
     THEN result' = Threw(BaseUrlUnset) /\ wire' = wire
     ELSE LET url == newURL(joinUrl(config.baseUrl, args.path)) IN
          IF url = Null
          THEN result' = Threw(InvalidUrl) /\ wire' = wire
          ELSE /\ wire' = [ k |-> "request",
                            href |-> url.href,
                            search |-> IF args.query = Undefined THEN url.search
                                       ELSE serializeQuery(url.search, args.query.v),
                            headers |-> requestHeaders(config, args),
                            hasBody |-> args.body # Undefined ]
               /\ result' = result
  /\ UNCHANGED <<config, args, response, jsonVars, appVars, listVars, dashVars>>

\* fetch rejects: the transport failed
FetchRejects ==
  /\ wire # None /\ response = None
  /\ response' = [k |-> "rejected"]
  /\ result' = Threw(NetworkFailed)
  /\ UNCHANGED <<config, args, wire, jsonVars, appVars, listVars, dashVars>>

\* fetch resolves, the body is read, request returns
FetchResolves ==
  /\ wire # None /\ response = None
  /\ \E resp \in Responses :
       /\ response' = resp
       /\ result' = requestResult(resp)
  /\ UNCHANGED <<config, args, wire, jsonVars, appVars, listVars, dashVars>>

NextHttp ==
  \/ Call
  \/ FetchRejects
  \/ FetchResolves

SpecHttp == InitHttp /\ [][NextHttp]_vars

----------------------------------------------------------------------------
(* Properties of the helpers (SpecJson) *)

\* The value a record holds under a key, read off the entries directly
EntryOf(b, key) ==
  IF b.k = "obj" /\ (\E i \in 1..Len(b.v) : b.v[i][1] = key)
  THEN b.v[CHOOSE i \in 1..Len(b.v) : b.v[i][1] = key][2]
  ELSE Undefined
HasEntry(b, key) == b.k = "obj" /\ \E i \in 1..Len(b.v) : b.v[i][1] = key

\* A string that is a decimal integer, possibly signed and padded with white space
FullyNumeric(s) ==
  LET t == Trim(s) IN
  \/ AllDigits(t)
  \/ t # <<>> /\ t[1] = "-" /\ AllDigits(Tail(t))
NumericValue(s) ==
  LET t == Trim(s) IN
  IF t[1] = "-" THEN -DecValue(Tail(t)) ELSE DecValue(t)

\* The number an id value stands for, 0 when it stands for none
IdNumber(t) ==
  IF t.k = "num" THEN t.v
  ELSE IF t.k = "str" /\ FullyNumeric(t.v) THEN NumericValue(t.v)
  ELSE 0

RowsIn(b) == getFirstArrayCandidate(unwrapApiData(b))
KeptRows(rows) == {i \in 1..Len(rows) : IdNumber(EntryOf(rows[i], "id")) # 0}
CarriesId(rows) == {i \in 1..Len(rows) : EntryOf(rows[i], "id").k \in {"num", "str"}}
Kth(S, j) == CHOOSE i \in S : Cardinality({m \in S : m < i}) = j - 1

\* C5 (as claimed): a list parser returns exactly the rows that carry an id.
C5_RowsCarryingIdAreKept ==
  fn \in ParserNames => Len(out) = Cardinality(CarriesId(RowsIn(input)))

\* C5 (amended): a list parser returns, in input order, exactly the rows that are
\* records whose id is a non-zero number or a numeric string of non-zero value; every
\* other row is dropped and no other row is affected.
C5_ValidRowsKeptInOrder ==
  fn \in ParserNames =>
    LET rows == RowsIn(input)
        kept == KeptRows(rows)
    IN /\ Len(out) = Cardinality(kept)
       /\ \A j \in 1..Len(out) :
            out[j].id = Num(IdNumber(EntryOf(rows[Kth(kept, j)], "id")))

\* C5 witness: three rows, the middle one without id, the outer two returned in order
C5_Witness ==
  /\ fn = "parseTokens"
  /\ input.k = "arr" /\ Len(input.v) = 3
  /\ ~HasEntry(input.v[2], "id")
  /\ Len(out) = 2 /\ out[1].id = Num(1) /\ out[2].id = Num(2)

\* C6: unwrapApiData returns body.data exactly (also [] and null) when body is a
\* record with a data property and body itself otherwise; a result without data key
\* unwraps to itself.
C6_UnwrapReturnsDataOrBody ==
  fn = "unwrapApiData" =>
    /\ HasEntry(input, "data") => out = EntryOf(input, "data")
    /\ ~HasEntry(input, "data") => out = input
    /\ ~HasEntry(out, "data") => unwrapApiData(out) = out

\* C6 witness: {data: null} unwrapped to null
C6_Witness ==
  fn = "unwrapApiData" /\ HasEntry(input, "data") /\ EntryOf(input, "data") = Null /\ out = Null

DeclaredErrorFns ==
  {"getApiError", "tokensDeclaredError", "logsDeclaredError", "topupDeclaredError"}

\* C7 (as claimed): on every screen a declared error is reported exactly for a record
\* with success === false; its text is body.message when that is a non-empty string
\* and a non-empty fallback otherwise. (A message of white space only may be shown as
\* it is or replaced by the fallback.)
C7_DeclaredErrorText ==
  fn \in DeclaredErrorFns =>
    LET declared == EntryOf(input, "success") = Bool(FALSE)
        msg == EntryOf(input, "message")
    IN /\ (out # Null) <=> declared
       /\ declared =>
            /\ out.k = "str" /\ out.v # <<>>
            /\ (msg.k = "str" /\ Trim(msg.v) # <<>>) => out = msg

\* C8 (as claimed): getNumber returns the number for a finite number or a fully
\* numeric string and undefined for every other value, the empty string included.
\* (Nothing is asked of a string of white space only.)
C8_GetNumberOnlyForNumbers ==
  fn = "getNumber" =>
    LET t == EntryOf(input, "id") IN
    IF t.k = "num" THEN out = t
    ELSE IF t.k = "str" /\ FullyNumeric(t.v) THEN out = Num(NumericValue(t.v))
    ELSE IF t.k = "str" /\ t.v # <<>> /\ Trim(t.v) = <<>> THEN TRUE
    ELSE out = Undefined

----------------------------------------------------------------------------
(* Properties of the list controller (Spec) *)

\* The body is a record with success === false
declaresFailure(body) == isRecord(body) /\ Get(body, "success") = Bool(FALSE)

\* The step l is the end of a load whose requests were all answered
Answered(l) == l.op = "resolve" /\ ~l.threw

\* Some answer of the load that ended with step l declares a failure
AnsweredWithFailure(l) ==
  Answered(l) /\ \E i \in 1..Len(l.res) : declaresFailure(l.res[i].body)

\* No answer of the load that ended with step l declares a failure
AnsweredWithoutFailure(l) ==
  Answered(l) /\ \A i \in 1..Len(l.res) : ~declaresFailure(l.res[i].body)

\* The answer to the list request of the load that ended with step l
ListAnswer(l) == l.res[ListSlot(screen)]

\* The answer's body carries a numeric data.total
ReportsTotal(body) ==
  /\ isRecord(body)
  /\ isRecord(Get(body, "data"))
  /\ TypeOf(Get(Get(body, "data"), "total")) = "number"

\* C1 (frame part): the end of a load with a declared failure leaves items, page,
\* pageSize and total as they are, so the data of the failed answer is never parsed
\* into the items; starting a load leaves them alone too, except that the page-size
\* chip sets pageSize and page itself before it loads.
DeclaredFailureFrame ==
  [][ /\ AnsweredWithFailure(last') => UNCHANGED <<items, page, pageSize, total>>
      /\ last'.op \in {"effect", "prev", "refresh", "next", "search"}
           => UNCHANGED <<items, page, pageSize, total>> ]_vars

\* C1: on every list screen, when an answer of a load declares success:false, the
\* load records the error (the error text is set, hence not empty) and leaves items,
\* page, pageSize and total exactly as they were.
C1_DeclaredFailureRecordedAndFramed ==
  [][ AnsweredWithFailure(last')
        => /\ UNCHANGED <<items, page, pageSize, total>>
           /\ error' # <<>> ]_vars

\* C2: when the list request of a load is answered with a non-2xx status, with or
\* without a declared failure, the controller ends errored and the items after the
\* load equal the items before it.
C2_HttpFailureKeepsItems ==
  [][ (Answered(last') /\ ~ListAnswer(last').ok)
        => /\ items' = items
           /\ error' # <<>> ]_vars

\* C3: there is no generation check: the answers of a load that declare no failure
\* are applied when they arrive, whichever request they belong to, so the displayed
\* items, page and total are those of the answer that arrived last, also when it
\* belongs to a request issued before another one.
C3_LastResolvedWins ==
  [][ AnsweredWithoutFailure(last')
        => LET body == ListAnswer(last').body
               data == listData(screen, body) IN
           /\ items' = parseList(screen, body)
           /\ page' = loadedPage(screen, data, last'.req.nextPage)
           /\ total' = loadedTotal(screen, data) ]_vars

\* Two loads were in flight at once, the one issued first was answered last, and
\* what is displayed is its non-empty page
C3_Witness ==
  /\ AnsweredWithoutFailure(last)
  /\ issued = 2
  /\ last.req.seq = 1
  /\ inflight = {}
  /\ items # <<>>
  /\ items = parseList(screen, ListAnswer(last).body)

\* C4: on every list screen, right after a load whose answer reports no total,
\* canNext is true exactly when the loaded page holds a full pageSize of items.
C4_CanNextIffFullPage ==
  (AnsweredWithoutFailure(last) /\ ~ReportsTotal(ListAnswer(last).body))
    => (canNext(screen) <=> Len(items) >= pageSize)

----------------------------------------------------------------------------
(* Properties of request (SpecHttp) *)

\* The call ended by throwing before anything was handed to fetch
ThrewBeforeSending == result.k = "threw" /\ wire = None

\* Every completed exchange is returned as it is
ExchangeReturned ==
  response.k = "response"
    => /\ result.k = "returned"
       /\ result.ok = (response.status >= 200 /\ response.status <= 299)
       /\ result.status = response.status
       /\ result.body = readResponseBody(response)

\* C9 as stated: request returns {ok, status, body} for every completed exchange, also
\* a non-2xx one, and throws only when the base address is empty, with nothing sent,
\* or when the transport fails.
C9_ThrowsOnlyOnEmptyBaseOrTransport ==
  /\ ExchangeReturned
  /\ result.k = "threw"
       => \/ config.baseUrl = <<>> /\ wire = None
          \/ response.k = "rejected"

\* C9, amended: request returns {ok, status, body} for every completed exchange, also
\* a non-2xx one; it throws with nothing sent exactly when the base address is empty
\* or does not begin with a scheme (the joined address is no absolute URL), and
\* otherwise throws only when the transport fails.
C9_ThrowsOnlyBeforeSendingOrOnTransport ==
  /\ ExchangeReturned
  /\ result.k = "threw" => (ThrewBeforeSending \/ response.k = "rejected")
  /\ ThrewBeforeSending => (config.baseUrl = <<>> \/ config.baseUrl[1] \notin Schemes)
  /\ (wire # None \/ result # None)
       => (wire = None <=> (config.baseUrl = <<>> \/ config.baseUrl[1] \notin Schemes))

\* A non-2xx exchange with a body was returned, not thrown
C9_Witness ==
  /\ response.k = "response"
  /\ response.status = 500
  /\ result.k = "returned"
  /\ ~result.ok
  /\ result.body = Failure(<<"q">>, <<>>)

\* How often the key occurs in the address handed to fetch
Occurrences(key) == Cardinality({i \in 1..Len(wire.search) : wire.search[i][1] = key})

\* C10: in the address handed to fetch, a key whose value is undefined does not occur
\* (and nothing is serialized as "undefined"), and every key with a defined value,
\* 0, false and the empty string included, occurs exactly once.
C10_QuerySkipsUndefined ==
  (wire # None /\ args.query # Undefined)
    => /\ \A key \in QueryKeys :
            Occurrences(key) = IF Get(args.query, key) # Undefined THEN 1 ELSE 0
       /\ \A i \in 1..Len(wire.search) : wire.search[i][2] # <<"undefined">>

\* A call with one undefined key and one key that is 0, false or "" was sent
C10_Witness ==
  /\ wire # None
  /\ args.query # Undefined
  /\ \E k1, k2 \in QueryKeys :
       /\ HasKey(args.query, k1) /\ Get(args.query, k1) = Undefined
       /\ Get(args.query, k2) \in {Num(0), Bool(FALSE), Str(<<>>)}
  /\ Len(wire.search) = 1

\* The value of the header of that name in the request handed to fetch, null without one
HeaderOf(name) ==
  LET at == {i \in 1..Len(wire.headers) : wire.headers[i][1] = name} IN
  IF at = {} THEN Null ELSE Str(wire.headers[CHOOSE i \in at : TRUE][2])

\* The toggle is true, explicitly or by default
ToggleOn(toggle) == toggle # Bool(FALSE)

----------------------------------------------------------------------------
(* Properties of the dashboard *)

\* C13: the bucket size is 24 hours exactly when the range is strictly longer than 72
\* hours and one hour otherwise (also for a range of exactly 72 hours); there is no
\* third size.
C13_BucketSizeTwoTiers ==
  fn = "bucketSizeSeconds"
    => /\ out \in {Num(3600), Num(24 * 3600)}
       /\ out = Num(24 * 3600) <=> input.v > 72 * 3600

\* A range of exactly 72 hours got the hourly buckets
C13_Witness ==
  /\ fn = "bucketSizeSeconds"
  /\ input = Num(72 * 3600)
  /\ out = Num(3600)

\* The buckets of the displayed window, before the slicing
CurrentBuckets == Buckets(startTimestamp, endTimestamp, quotaData)

Without(data, i) == SubSeq(data, 1, i - 1) \o SubSeq(data, i + 1, Len(data))

\* The buckets (counted from 1) to which row i of quotaData adds something: those
\* whose sums differ once the row is taken away
AssignedTo(i) ==
  LET with == CurrentBuckets
      without == Buckets(startTimestamp, endTimestamp, Without(quotaData, i)) IN
  { j \in 1..with.buckets :
      \/ with.times[j] # without.times[j]
      \/ with.quota[j] # without.quota[j]
      \/ with.tokens[j] # without.tokens[j] }

\* Row i carries a time
Timed(i) == TypeOf(quotaData[i].createdAt) = "number"

InWindow(i) ==
  /\ Timed(i)
  /\ startTimestamp <= quotaData[i].createdAt.v
  /\ quotaData[i].createdAt.v <= endTimestamp

\* The bucket of a time by the arithmetic of the integers: the start of the window is
\* aligned down to a multiple of the bucket size, and the buckets are counted from 1
BucketOf(time) ==
  LET size == CurrentBuckets.size
      alignedStart == startTimestamp - (startTimestamp % size) IN
  ((time - alignedStart) \div size) + 1

\* C12 as stated: every row whose time lies in [startTimestamp, endTimestamp] is added
\* to exactly one bucket, the one of its time, and that bucket exists; a row at
\* endTimestamp is added to the last bucket.
C12_WindowRowsBucketed ==
  screen = "dashboard"
    => \A i \in 1..Len(quotaData) :
         InWindow(i)
           => /\ AssignedTo(i) = {BucketOf(quotaData[i].createdAt.v)}
              /\ BucketOf(quotaData[i].createdAt.v) \in 1..CurrentBuckets.buckets
              /\ quotaData[i].createdAt.v = endTimestamp
                   => AssignedTo(i) = {CurrentBuckets.buckets}

\* C12, amended: for a window that starts at or after the epoch, every row whose time
\* is not 0 and lies in [startTimestamp, endTimestamp] is added to exactly one bucket,
\* the one of its time, and that bucket exists; a row at endTimestamp is added to the
\* last bucket. A row whose time is 0 counts as a row without a time and is skipped,
\* and so is every row whose bucket would lie outside the array.
C12_TimedWindowRowsBucketed ==
  (screen = "dashboard" /\ startTimestamp >= 0)
    => \A i \in 1..Len(quotaData) :
         /\ (InWindow(i) /\ quotaData[i].createdAt.v # 0)
              => /\ AssignedTo(i) = {BucketOf(quotaData[i].createdAt.v)}
                 /\ BucketOf(quotaData[i].createdAt.v) \in 1..CurrentBuckets.buckets
                 /\ quotaData[i].createdAt.v = endTimestamp
                      => AssignedTo(i) = {CurrentBuckets.buckets}
         /\ (~Timed(i) \/ quotaData[i].createdAt.v = 0) => AssignedTo(i) = {}
         /\ (Timed(i) /\ BucketOf(quotaData[i].createdAt.v) \notin 1..CurrentBuckets.buckets)
              => AssignedTo(i) = {}

\* The window starts at 0 and has hourly buckets; the rows at 3599, at 3600 and at
\* endTimestamp were added to the first, the second and the last bucket, and a row
\* from before the start to none
C12_Witness ==
  /\ screen = "dashboard"
  /\ startTimestamp = 0
  /\ CurrentBuckets.size = 3600
  /\ \E a, b, c, d \in 1..Len(quotaData) :
       /\ quotaData[a].createdAt = Num(3599) /\ AssignedTo(a) = {1}
       /\ quotaData[b].createdAt = Num(3600) /\ AssignedTo(b) = {2}
       /\ quotaData[c].createdAt = Num(endTimestamp)
       /\ AssignedTo(c) = {CurrentBuckets.buckets}
       /\ quotaData[d].createdAt = Num(startTimestamp - 1) /\ AssignedTo(d) = {}

\* The array is the last n entries of the full array, in the same order
IsTail(array, full, n) ==
  /\ Len(array) = n
  /\ \A k \in 1..n : array[k] = full[Len(full) - n + k]

\* C14: there is at least one bucket for every window, and each series that is
\* returned (quota, tokens, times, and the two rates derived from them) has exactly
\* min(24, number of buckets) entries, which are the most recent buckets in
\* chronological order.
C14_SeriesIsRecentTail ==
  screen = "dashboard"
    => LET b == CurrentBuckets
           n == Min(24, b.buckets) IN
       /\ b.buckets >= 1
       /\ Len(b.quota) = b.buckets /\ Len(b.tokens) = b.buckets /\ Len(b.times) = b.buckets
       /\ IsTail(series.quota, b.quota, n)
       /\ IsTail(series.tokens, b.tokens, n)
       /\ IsTail(series.times, b.times, n)
       /\ IsTail(series.rpm, [j \in 1..b.buckets |-> <<b.times[j], b.size \div 60>>], n)
       /\ IsTail(series.tpm, [j \in 1..b.buckets |-> <<b.tokens[j], b.size \div 60>>], n)

\* A 30-day window has 31 buckets; the series has 24 entries, the last one holds the
\* rows at the end of the window, and the rows of the first bucket are not shown
C14_Witness ==
  /\ screen = "dashboard"
  /\ CurrentBuckets.buckets = 31
  /\ CurrentBuckets.times[1] > 0
  /\ Len(series.times) = 24
  /\ series.times[24] = CurrentBuckets.times[31]
  /\ series.times[24] > 0

----------------------------------------------------------------------------
(* Properties of the list screens, continued *)

\* C15: in every state a list screen reaches, whatever the server answers, the page
\* is at least 1 and the page size is at least 1.
C15_PageAndPageSizePositive ==
  page >= 1 /\ pageSize >= 1

\* The answer's body carries a numeric data.key, and its value
Reports(body, key) ==
  /\ isRecord(body)
  /\ isRecord(Get(body, "data"))
  /\ TypeOf(Get(Get(body, "data"), key)) = "number"

Reported(body, key) == Get(Get(body, "data"), key).v

\* The number of rows in data.items of the answer's body, 0 without such an array
ItemsReported(body) ==
  IF isRecord(body) /\ isRecord(Get(body, "data")) /\ ArrayIsArray(Get(Get(body, "data"), "items"))
  THEN Len(Get(Get(body, "data"), "items").v)
  ELSE 0

AdminScreens == {"redemptions", "channels", "users"}

C17_PageSizeChangeLoadsWithNewSize ==
  [][ /\ last'.op = "pageSize"
         => /\ last'.req.nextPage = 1
            /\ last'.req.pageSize = pageSize'
      /\ ( /\ last.op = "pageSize"
           /\ AnsweredWithoutFailure(last')
           /\ last'.req = last.req
           /\ inflight' = {}
           /\ ~Reports(ListAnswer(last').body, "page_size") )
         => pageSize' = pageSize ]_vars


\* The texts that start a generic HTTP-status message, and the messages built on them
HttpLabels == UNION {{Slots(s)[i].label : i \in 1..Len(Slots(s))} : s \in Screens}

IsHttpMessage(text) ==
  \E label \in HttpLabels :
    Len(text) > Len(label) /\ SubSeq(text, 1, Len(label)) = label

\* The body carries a message that is a string with something other than blanks in it
HasMessage(body) ==
  TypeOf(Get(body, "message")) = "string" /\ Trim(Get(body, "message").v) # <<>>

----------------------------------------------------------------------------
(* Properties of parseUser and readResponseBody *)

\* The payload of a body, read off the entries directly
Payload(b) == IF HasEntry(b, "data") THEN EntryOf(b, "data") ELSE b

\* A username value parseUser can use: a non-empty string, or a number
UsableName(t) == (t.k = "str" /\ t.v # <<>>) \/ t.k = "num"

\* out.field is the text of the payload's entry, undefined without a string or number
TextField(value, entry) ==
  /\ TypeOf(value) \in {"string", "undefined"}
  /\ entry.k = "str" => value = entry
  /\ entry.k = "num" => TypeOf(value) = "string"
  /\ entry.k \notin {"str", "num"} => value = Undefined

\* out.field is the number of the payload's entry, undefined without a number or string
NumberField(value, entry) ==
  /\ TypeOf(value) \in {"number", "undefined"}
  /\ entry.k = "num" => value = entry
  /\ entry.k \notin {"str", "num"} => value = Undefined

TypedUser(u, payload) ==
  /\ TypeOf(u.id) = "number"
  /\ TypeOf(u.username) = "string"
  /\ TextField(u.displayName, EntryOf(payload, "display_name"))
  /\ TextField(u.email, EntryOf(payload, "email"))
  /\ TextField(u.group, EntryOf(payload, "group"))
  /\ NumberField(u.role, EntryOf(payload, "role"))
  /\ NumberField(u.status, EntryOf(payload, "status"))
  /\ NumberField(u.quota, EntryOf(payload, "quota"))
  /\ NumberField(u.usedQuota, EntryOf(payload, "used_quota"))
  /\ NumberField(u.requestCount, EntryOf(payload, "request_count"))

\* The payload carries the identity field: a number or a string under the key
CarriesField(payload, key) == EntryOf(payload, key).k \in {"num", "str"}

\* C19 as stated: parseUser returns null exactly when the payload is not an object or
\* carries no id or no username, and otherwise a user whose other fields are well
\* typed or undefined.
C19_NullExactlyWithoutIdentityFields ==
  fn = "parseUser" =>
    LET payload == Payload(input) IN
    IF payload.k # "obj" \/ ~CarriesField(payload, "id") \/ ~CarriesField(payload, "username")
    THEN out = Null
    ELSE out # Null /\ TypedUser(out, payload)

\* C19, amended: parseUser returns null exactly when the payload is not an object, its
\* id is not a non-zero number or a numeric string of non-zero value, or its username
\* is not a non-empty string or a number; otherwise it returns a user with that id and
\* username whose other fields are well typed or undefined.
C19_NullExactlyWithoutUsableIdentity ==
  fn = "parseUser" =>
    LET payload == Payload(input) IN
    IF \/ payload.k # "obj"
       \/ IdNumber(EntryOf(payload, "id")) = 0
       \/ ~UsableName(EntryOf(payload, "username"))
    THEN out = Null
    ELSE /\ out # Null
         /\ out.id = Num(IdNumber(EntryOf(payload, "id")))
         /\ EntryOf(payload, "username").k = "str" => out.username = EntryOf(payload, "username")
         /\ TypedUser(out, payload)

\* An enveloped payload with id "2", a username, a numeric display name and a boolean
\* role gave the user 2 with a text display name and no role
C19_Witness ==
  /\ fn = "parseUser"
  /\ HasEntry(input, "data")
  /\ EntryOf(Payload(input), "id") = Str(<<"2">>)
  /\ EntryOf(Payload(input), "display_name") = Num(5)
  /\ EntryOf(Payload(input), "role") = Bool(TRUE)
  /\ out # Null
  /\ out.id = Num(2)
  /\ out.username = Str(<<"u">>)
  /\ out.displayName = Str(<<"5">>)
  /\ out.role = Undefined


\* The answer's content-type header is present and contains application/json
DeclaresJson(resp) ==
  resp.contentType # Null
    /\ \E i \in 1..Len(resp.contentType.v) : resp.contentType.v[i] = "application/json"

\* C20: readResponseBody never throws: for every answer fetch resolves with, request
\* returns, and the body it returns is the parsed JSON, or null if parsing fails, when
\* the content type contains application/json, and otherwise the raw text, or null if
\* reading fails.
C20_BodyIsJsonOrTextOrNull ==
  response.k = "response" =>
    /\ result.k = "returned"
    /\ result.body =
         IF DeclaresJson(response)
         THEN (IF response.json = Failed THEN Null ELSE response.json)
         ELSE (IF response.text = Failed THEN Null ELSE response.text)

\* An answer declared as JSON whose body does not parse was returned with the body null
C20_Witness ==
  /\ response.k = "response"
  /\ response.contentType = JsonContentType
  /\ response.json = Failed
  /\ result.k = "returned"
  /\ result.body = Null


----------------------------------------------------------------------------
(* Properties of the dashboard, continued *)

RECURSIVE SumOf(_)
SumOf(array) == IF array = <<>> THEN 0 ELSE array[1] + SumOf(Tail(array))

\* What row i of quotaData adds to the totals: the totals less the totals without it
CountedInTotals(i) ==
  LET with == totals
      without == TotalsOf(Without(quotaData, i)) IN
  [ quota |-> with.totalQuota - without.totalQuota,
    times |-> with.totalTimes - without.totalTimes,
    tokens |-> with.totalTokens - without.totalTokens ]

\* The buckets that are not displayed: all but the last 24
Undisplayed == 1..(CurrentBuckets.buckets - 24)

----------------------------------------------------------------------------
(* Properties of the parsers, continued *)

\* The positions of the entries of a record whose value is an array
ArrayEntries(b) == {i \in 1..Len(b.v) : b.v[i][2].k = "arr"}

\* The positions of the entries whose value is a record with an array among its entries
NestingEntries(b) == {i \in 1..Len(b.v) : b.v[i][2].k = "obj" /\ ArrayEntries(b.v[i][2]) # {}}

\* The conventional keys under which the record holds an array, by priority
ConventionalHits(b) ==
  {i \in 1..Len(arrayCandidates) : EntryOf(b, arrayCandidates[i]).k = "arr"}

\* The same entries in any order
SameEntries(b, c) ==
  b.k = "obj" /\ c.k = "obj" /\ {b.v[i] : i \in 1..Len(b.v)} = {c.v[i] : i \in 1..Len(c.v)}

\* C22: getFirstArrayCandidate returns the payload if it is an array; else the array
\* under the first conventional key, in the fixed priority order, that holds one,
\* wherever the payload's keys stand; else the first array among the payload's own
\* values; else the first array among the values of its first nested object that has
\* one; and the empty list when there is none.
C22_FirstArrayInFixedOrder ==
  fn = "getFirstArrayCandidate" =>
    /\ out.k = "arr"
    /\ out.v =
         IF input.k = "arr" THEN input.v
         ELSE IF input.k # "obj" THEN <<>>
         ELSE IF ConventionalHits(input) # {}
           THEN EntryOf(input, arrayCandidates[SetMin(ConventionalHits(input))]).v
         ELSE IF ArrayEntries(input) # {}
           THEN input.v[SetMin(ArrayEntries(input))][2].v
         ELSE IF NestingEntries(input) # {}
           THEN LET inner == input.v[SetMin(NestingEntries(input))][2]
                IN inner.v[SetMin(ArrayEntries(inner))][2].v
         ELSE <<>>
    /\ (input.k = "obj" /\ ConventionalHits(input) # {})
         => \A other \in ArrayPayloads :
              SameEntries(input, other) => getFirstArrayCandidate(other) = out.v

\* The payload {a: [1], n: {..., y: [5]}, items: [4]}: the array under items is
\* returned although two other arrays come first in key order
C22_Witness ==
  /\ fn = "getFirstArrayCandidate"
  /\ input.k = "obj" /\ Len(input.v) = 3
  /\ input.v[1][1] = "a" /\ input.v[2][1] = "n" /\ input.v[3][1] = "items"
  /\ out = Arr(<<Num(4)>>)


----------------------------------------------------------------------------
(* Properties of the list screens: paging *)

MaxGrid == 6        \* pages and page sizes 1..MaxGrid, totals 1..MaxGrid * MaxGrid

\* C23: with a known total (> 0) and page >= 1, pageSize >= 1, every list screen
\* permits next exactly when page * pageSize < total: in every state the screens reach,
\* and, for the formula of each screen, over a grid of pages, page sizes and totals.
C23_CanNextIffMoreRows ==
  /\ (total > 0 /\ page >= 1 /\ pageSize >= 1)
       => (canNext(screen) <=> page * pageSize < total)
  /\ issued = 0
       => \A p \in 1..MaxGrid, ps \in 1..MaxGrid, t \in 1..(MaxGrid * MaxGrid) :
            canNextOf(screen, p, ps, t, 0) <=> p * ps < t

\* The tokens screen shows page 2 of 2-row pages of 5 rows in all: there is a next
\* page, by page < ceil(5 / 2) as by 2 * 2 < 5
C23_Witness ==
  /\ screen = "tokens"
  /\ page = 2 /\ pageSize = 2 /\ total = 5
  /\ canNext(screen)


\* C24: the page controls never ask for a page below 1: prev asks for
\* max(1, page - 1) and only when page > 1, refresh asks for the current page, next
\* asks for page + 1 (at most maxPage on the tokens and logs screens), and none of
\* them acts while busy.
C24_ControlsStayOnValidPages ==
  [][ /\ last'.op = "prev"
         => ~busy /\ page > 1 /\ last'.req.nextPage = Max(1, page - 1)
      /\ last'.op = "refresh"
         => ~busy /\ last'.req.nextPage = page
      /\ last'.op = "next"
         => /\ ~busy
            /\ last'.req.nextPage =
                 IF screen \in {"tokens", "logs"} /\ ~maxPage(screen).inf
                 THEN Min(maxPage(screen).n, page + 1)
                 ELSE page + 1
      /\ last'.op \in {"prev", "refresh", "next"} => last'.req.nextPage >= 1 ]_vars

\* The same without the bound (C24): what each control asks for, and when it may act
ControlsAskAsStated ==
  [][ /\ last'.op = "prev"
         => ~busy /\ page > 1 /\ last'.req.nextPage = Max(1, page - 1)
      /\ last'.op = "refresh"
         => ~busy /\ last'.req.nextPage = page
      /\ last'.op = "next"
         => /\ ~busy
            /\ last'.req.nextPage =
                 IF screen \in {"tokens", "logs"} /\ ~maxPage(screen).inf
                 THEN Min(maxPage(screen).n, page + 1)
                 ELSE page + 1 ]_vars


\* C25: busy is true in every state in which a load is in flight, and false once no
\* load is in flight.
C25_BusyIffLoadInFlight ==
  screen \in Screens => (busy <=> inflight # {})

\* The half of C25 that does not depend on overlapping loads
IdleMeansNotBusy ==
  screen \in Screens => (inflight = {} => ~busy)


\* C26: a mounted list screen that is left alone issues its list request once: the
\* effect does not run again because of the state updates of load itself, so the
\* screen comes to rest (not busy, nothing in flight) once that request is answered.
C26_MountLoadsOnce ==
  [][ /\ last'.op = "effect" => issued = 0
      /\ (last'.op = "resolve" /\ issued = 1)
           => (~busy' /\ inflight' = {} /\ ~loadStale') ]_vars


----------------------------------------------------------------------------
(* Properties of the providers and the auth gate *)

\* The user is signed out, every /api/user/self has ended and MeProvider's effect has
\* nothing left to run
SignedOutAtRest == authLoaded /\ ~isSignedIn /\ inflight = {} /\ ~loadStale

\* Holds: at rest after signing out, me is null and the user is neither admin nor root
SignedOutAtRestHasNoUser == SignedOutAtRest => (me = Null /\ ~isAdmin /\ ~isRoot)

\* C27: once the user is signed out and every /api/user/self has ended, me is null and
\* isAdmin and isRoot are false; and while the user stays signed out, a me that is null
\* stays null: the answer to a request sent before the sign-out does not fill it again.
C27_SignedOutHasNoUser ==
  [][ /\ SignedOutAtRest' => (me' = Null /\ ~isAdmin' /\ ~isRoot')
      /\ (~isSignedIn /\ ~isSignedIn' /\ me = Null) => me' = Null ]_vars

\* The steps of the gate's effect
GateOps == {"redirectLogin", "redirectTabs", "gateIdle"}

\* C28: the gate sends the router nowhere until the stored credentials and the stored
\* settings have both been read; from then on a run of its effect goes to the login
\* screen exactly for a user who is not signed in and is outside the auth group, to the
\* tabs exactly for a signed-in user inside the auth group, and nowhere otherwise.
C28_GateWaitsThenRedirects ==
  [][ last'.op \in GateOps =>
        /\ last'.op = "redirectLogin"
             <=> (authLoaded /\ settingsLoaded /\ ~isSignedIn /\ segment # "(auth)")
        /\ last'.op = "redirectTabs"
             <=> (authLoaded /\ settingsLoaded /\ isSignedIn /\ segment = "(auth)")
        /\ segment' = CASE last'.op = "redirectLogin" -> "(auth)"
                        [] last'.op = "redirectTabs" -> "(tabs)"
                        [] OTHER -> segment
        /\ UNCHANGED <<credentials, authLoaded, settingsLoaded>> ]_vars

\* A signed-in user has been sent from the login group to the tabs
C28_Witness ==
  /\ last.op = "redirectTabs"
  /\ authLoaded /\ settingsLoaded /\ isSignedIn
  /\ segment = "(tabs)"

----------------------------------------------------------------------------
(* Properties of the list screens: rows dropped by the parser *)

\* The rows of the answer to the list request of the load that ended with the last step
RawRows == RowsIn(ListAnswer(last).body)

----------------------------------------------------------------------------
(* Properties of the parsers: the identity check *)

\* The id of a row is 0, "0" or the empty string
ZeroIds == {Num(0), Str(<<"0">>), Str(<<>>)}

\* The rows a parser has to keep: records whose id converts to a non-zero number
Identified(rows) ==
  {i \in 1..Len(rows) : rows[i].k = "obj" /\ IdNumber(EntryOf(rows[i], "id")) # 0}

\* The rows at the positions of the set, in their order
RowsAt(rows, positions) == [j \in 1..Cardinality(positions) |-> rows[Kth(positions, j)]]

\* C30: a list parser keeps a row exactly if the row is a record, not an array, whose id
\* converts to a finite number other than 0; rows whose id is 0, "0" or "" change the
\* result no more than rows without id do; and parseUser returns null for an id of 0 and
\* for an empty username.
C30_IdentityCheck ==
  /\ fn \in ParserNames =>
       LET rows == RowsIn(input)
       IN /\ Len(out) = Cardinality(Identified(rows))
          /\ \A i \in 1..Len(rows) :
               EntryOf(rows[i], "id") \in ZeroIds \cup {Undefined} => i \notin Identified(rows)
          /\ out = Parse(fn, Arr(RowsAt(rows, Identified(rows))))
  /\ fn = "parseUser" =>
       LET payload == Payload(input) IN
       (EntryOf(payload, "id") \in ZeroIds \/ EntryOf(payload, "username") = Str(<<>>))
         => out = Null

\* C30 witness: rows with id 0, "0" and "" handed to a parser, none of them returned
C30_Witness ==
  /\ fn = "parseTokens"
  /\ input.k = "arr" /\ Len(input.v) = 3
  /\ {EntryOf(input.v[i], "id") : i \in 1..3} = ZeroIds
  /\ out = <<>>

============================================================================
